---------------------------- MODULE Spec2Model ----------------------------
(***************************************************************************)
(* Model of the environment deployer of copilot-cli                        *)
(* (internal/pkg/cli/deploy/env.go).                                       *)
(*                                                                         *)
(* One envDeployer instance is used sequentially.  Every public operation  *)
(* (UploadArtifacts, GenerateCloudFormationTemplate, DeployEnvironment) is *)
(* one action; the answers of the injected collaborators are the inputs of *)
(* the action.  Each action records the collaborator calls it made, with   *)
(* their arguments and answers, and the values it returned.                *)
(*                                                                         *)
(* Go values are represented as follows:                                   *)
(*   error          [nil, msg, chain]: msg is the message as a sequence of *)
(*                  string fragments, chain the messages reached by        *)
(*                  errors.Unwrap, outermost cause first                   *)
(*   pointer/struct a record with a nil flag                               *)
(*   map            [nil, m] with m a set of <<key, value>> pairs          *)
(***************************************************************************)
EXTENDS Integers, Sequences, FiniteSets, TLC

(***************************************************************************)
(* Bounds                                                                  *)
(***************************************************************************)
\* The lookup collaborator answers at most this many calls on one instance.
MaxLookups == 3

(***************************************************************************)
(* Errors: errors.New and fmt.Errorf("...%w", err)                         *)
(***************************************************************************)
NoErr == [nil |-> TRUE, msg |-> <<>>, chain |-> <<>>]

ErrorsNew(text) == [nil |-> FALSE, msg |-> <<text>>, chain |-> <<>>]

\* fmt.Errorf without %w: the fragments are the whole message.
Errorf(fragments) == [nil |-> FALSE, msg |-> fragments, chain |-> <<>>]

\* fmt.Errorf(prefix + "%w", cause): the message is the prefix followed by the
\* cause's message, and the result unwraps to the cause.
ErrorfW(prefix, cause) ==
    [nil |-> FALSE, msg |-> prefix \o cause.msg, chain |-> <<cause.msg>> \o cause.chain]

\* errors.Is / errors.Unwrap reachability: e is cause itself or wraps it.
Wraps(e, cause) ==
    /\ ~e.nil
    /\ \E i \in 1..Len(e.chain) : e.chain[i] = cause.msg

IsPrefixOf(p, s) == Len(p) <= Len(s) /\ SubSeq(s, 1, Len(p)) = p

\* The causes the collaborators fail with.
Causes == {ErrorsNew("some error"), ErrorsNew("boom")}

(***************************************************************************)
(* Application, environment and regional resources                         *)
(***************************************************************************)
Regions == {"us-west-2", "mockEnvRegion"}

Apps ==
    {[Name |-> "mockApp", Domain |-> "", Tags |-> {}],
     [Name |-> "shop", Domain |-> "example.com", Tags |-> {<<"team", "infra">>}]}

Envs ==
    {[Name |-> "mockEnv", Region |-> r,
      ManagerRoleARN |-> "mockManagerRoleARN",
      ExecutionRoleARN |-> "mockExecutionRoleARN"] : r \in Regions}

\* *stack.AppRegionalResources; NilRes is the nil pointer.
NilRes == [nil |-> TRUE, S3Bucket |-> "", KMSKeyARN |-> ""]

Resources(bucket, key) == [nil |-> FALSE, S3Bucket |-> bucket, KMSKeyARN |-> key]

\* Answers of appCFN.GetAppResourcesByRegion: an error, or resources whose
\* bucket may be empty.
LookupAnswers ==
    {[res |-> NilRes, err |-> e] : e \in Causes}
    \cup {[res |-> Resources(b, "mockKMSKey"), err |-> NoErr] : b \in {"", "mockS3Bucket"}}
    \cup {[res |-> Resources("otherBucket", ""), err |-> NoErr]}

\* A recorded collaborator call.
Call(fn, args, ret) == [fn |-> fn, args |-> args, ret |-> ret]

CallsTo(cs, fn) == SelectSeq(cs, LAMBDA c : c.fn = fn)

(***************************************************************************)
(* envDeployer.getAppRegionalResources (env.go:153-165)                    *)
(* d is the deployer [app, env, appRegionalResources]; ans is the answer   *)
(* GetAppResourcesByRegion gives if it is called.  The result carries the  *)
(* returned pair, the calls made and the value of the cache field after    *)
(* the call: the method never assigns d.appRegionalResources.              *)
(***************************************************************************)
getAppRegionalResources_noBucketCheck(d, ans) ==
    IF ~d.appRegionalResources.nil
    THEN [res |-> d.appRegionalResources, err |-> NoErr, calls |-> <<>>,
          cache |-> d.appRegionalResources]
    ELSE LET call == Call("GetAppResourcesByRegion", <<d.app, d.env.Region>>, ans)
         IN IF ~ans.err.nil
            THEN [res |-> NilRes,
                  err |-> ErrorfW(<<"get app resources in region ", d.env.Region, ": ">>, ans.err),
                  calls |-> <<call>>, cache |-> d.appRegionalResources]
            ELSE [res |-> ans.res, err |-> NoErr, calls |-> <<call>>,
                  cache |-> d.appRegionalResources]

getAppRegionalResources_rawCause(d, ans) ==
    IF ~d.appRegionalResources.nil
    THEN [res |-> d.appRegionalResources, err |-> NoErr, calls |-> <<>>,
          cache |-> d.appRegionalResources]
    ELSE LET call == Call("GetAppResourcesByRegion", <<d.app, d.env.Region>>, ans)
         IN IF ~ans.err.nil
            THEN [res |-> NilRes, err |-> ans.err,
                  calls |-> <<call>>, cache |-> d.appRegionalResources]
            ELSE IF ans.res.S3Bucket = ""
            THEN [res |-> NilRes,
                  err |-> Errorf(<<"cannot find the S3 artifact bucket in region ", d.env.Region>>),
                  calls |-> <<call>>, cache |-> d.appRegionalResources]
            ELSE [res |-> ans.res, err |-> NoErr, calls |-> <<call>>,
                  cache |-> d.appRegionalResources]

getAppRegionalResources(d, ans) ==
    IF ~d.appRegionalResources.nil
    THEN [res |-> d.appRegionalResources, err |-> NoErr, calls |-> <<>>,
          cache |-> d.appRegionalResources]
    ELSE LET call == Call("GetAppResourcesByRegion", <<d.app, d.env.Region>>, ans)
         IN IF ~ans.err.nil
            THEN [res |-> NilRes,
                  err |-> ErrorfW(<<"get app resources in region ", d.env.Region, ": ">>, ans.err),
                  calls |-> <<call>>, cache |-> d.appRegionalResources]
            ELSE IF ans.res.S3Bucket = ""
            THEN [res |-> NilRes,
                  err |-> Errorf(<<"cannot find the S3 artifact bucket in region ", d.env.Region>>),
                  calls |-> <<call>>, cache |-> d.appRegionalResources]
            ELSE [res |-> ans.res, err |-> NoErr, calls |-> <<call>>,
                  cache |-> d.appRegionalResources]

(***************************************************************************)
(* Custom resources of an environment (package customresource)             *)
(***************************************************************************)
\* The function names of the environment's custom-resource catalog, in the
\* order customresource.Env lists them.
EnvCatalog == <<"CertificateValidationFunction", "CustomDomainFunction", "DNSDelegationFunction">>

CatalogNames == {EnvCatalog[i] : i \in 1..Len(EnvCatalog)}

\* strings.ToLower on the names of the catalog.
ToLower(name) ==
    CASE name = "CertificateValidationFunction" -> "certificatevalidationfunction"
      [] name = "CustomDomainFunction" -> "customdomainfunction"
      [] name = "DNSDelegationFunction" -> "dnsdelegationfunction"
      [] OTHER -> name

\* The object key of a bundle: derived from the case-normalized function name.
ArtifactKey(name) == <<"custom-resources/", ToLower(name)>>

\* Answers of templateFS to customresource.Env (env.go:98-101): the read
\* yields the catalog, or it fails and yields no bundle.
FSAnswers ==
    {[crs |-> EnvCatalog, err |-> NoErr],
     [crs |-> <<>>, err |-> ErrorsNew("some error")]}

\* The orders in which the bundles of the catalog can be uploaded.
UploadOrders ==
    {o \in [1..Len(EnvCatalog) -> 1..Len(EnvCatalog)] :
        \A i, j \in 1..Len(EnvCatalog) : i # j => o[i] # o[j]}

\* The URL the storage layer reports for a bundle it stored.
StoredURL(name) == <<"https://mockURL/", ToLower(name)>>

\* Answers of s3.Upload, per bundle: the bundle is stored or the upload fails.
UploadAnswers == [CatalogNames -> {"stored", "failed"}]

UploadAnswer(upAns, name) ==
    IF upAns[name] = "stored"
    THEN [url |-> StoredURL(name), err |-> NoErr]
    ELSE [url |-> <<>>, err |-> ErrorsNew("some error")]

NilMap == [nil |-> TRUE, m |-> {}]

MakeMap(pairs) == [nil |-> FALSE, m |-> pairs]

Keys(map) == {p[1] : p \in map.m}

\* customresource.Upload: uploads the bundles crs one after the other in the
\* order given, through the upload function of the caller (bound to bucket),
\* and stops at the first upload that fails; no map is returned then.
RECURSIVE UploadFrom(_, _, _, _, _, _)
UploadFrom(bucket, crs, order, upAns, i, acc) ==
    IF i > Len(crs)
    THEN [urls |-> MakeMap(acc.urls), err |-> NoErr, calls |-> acc.calls]
    ELSE LET name == crs[order[i]]
             ans == UploadAnswer(upAns, name)
             call == Call("s3.Upload", <<bucket, ArtifactKey(name)>>, ans)
         IN IF ~ans.err.nil
            THEN [urls |-> NilMap, err |-> ans.err, calls |-> Append(acc.calls, call)]
            ELSE UploadFrom(bucket, crs, order, upAns, i + 1,
                            [urls |-> acc.urls \cup {<<name, ans.url>>},
                             calls |-> Append(acc.calls, call)])

Upload(bucket, crs, order, upAns) ==
    UploadFrom(bucket, crs, order, upAns, 1, [urls |-> {}, calls |-> <<>>])

(***************************************************************************)
(* envDeployer.uploadCustomResources (env.go:97-109)                       *)
(***************************************************************************)
uploadCustomResources_wrongBucket(d, bucket, fsAns, order, upAns) ==
    LET read == Call("customresource.Env", <<>>, fsAns.err)
    IN IF ~fsAns.err.nil
       THEN [urls |-> NilMap,
             err |-> ErrorfW(<<"read custom resources for environments: ">>, fsAns.err),
             calls |-> <<read>>]
       ELSE LET up == Upload(d.env.Region, fsAns.crs, order, upAns)
            IN IF ~up.err.nil
               THEN [urls |-> NilMap,
                     err |-> ErrorfW(<<"upload custom resources to bucket ", bucket, ": ">>, up.err),
                     calls |-> <<read>> \o up.calls]
               ELSE [urls |-> up.urls, err |-> NoErr, calls |-> <<read>> \o up.calls]

uploadCustomResources_rawCause(d, bucket, fsAns, order, upAns) ==
    LET read == Call("customresource.Env", <<>>, fsAns.err)
    IN IF ~fsAns.err.nil
       THEN [urls |-> NilMap,
             err |-> ErrorfW(<<"read custom resources for environments: ">>, fsAns.err),
             calls |-> <<read>>]
       ELSE LET up == Upload(bucket, fsAns.crs, order, upAns)
            IN IF ~up.err.nil
               THEN [urls |-> NilMap, err |-> up.err, calls |-> <<read>> \o up.calls]
               ELSE [urls |-> up.urls, err |-> NoErr, calls |-> <<read>> \o up.calls]

uploadCustomResources(d, bucket, fsAns, order, upAns) ==
    LET read == Call("customresource.Env", <<>>, fsAns.err)
    IN IF ~fsAns.err.nil
       THEN [urls |-> NilMap,
             err |-> ErrorfW(<<"read custom resources for environments: ">>, fsAns.err),
             calls |-> <<read>>]
       ELSE LET up == Upload(bucket, fsAns.crs, order, upAns)
            IN IF ~up.err.nil
               THEN [urls |-> NilMap,
                     err |-> ErrorfW(<<"upload custom resources to bucket ", bucket, ": ">>, up.err),
                     calls |-> <<read>> \o up.calls]
               ELSE [urls |-> up.urls, err |-> NoErr, calls |-> <<read>> \o up.calls]

(***************************************************************************)
(* envDeployer.UploadArtifacts (env.go:89-95)                              *)
(***************************************************************************)
UploadArtifactsOp_uploadsAnyway(d, lookupAns, fsAns, order, upAns) ==
    LET r == getAppRegionalResources(d, lookupAns)
        u == uploadCustomResources(d, r.res.S3Bucket, fsAns, order, upAns)
    IN IF ~r.err.nil
       THEN [urls |-> NilMap, err |-> r.err, calls |-> r.calls \o u.calls,
             res |-> r.res, cache |-> r.cache]
       ELSE [urls |-> u.urls, err |-> u.err, calls |-> r.calls \o u.calls,
             res |-> r.res, cache |-> r.cache]

UploadArtifactsOp(d, lookupAns, fsAns, order, upAns) ==
    LET r == getAppRegionalResources(d, lookupAns)
    IN IF ~r.err.nil
       THEN [urls |-> NilMap, err |-> r.err, calls |-> r.calls,
             res |-> r.res, cache |-> r.cache]
       ELSE LET u == uploadCustomResources(d, r.res.S3Bucket, fsAns, order, upAns)
            IN [urls |-> u.urls, err |-> u.err, calls |-> r.calls \o u.calls,
                res |-> r.res, cache |-> r.cache]

(***************************************************************************)
(* Inputs of GenerateCloudFormationTemplate and DeployEnvironment          *)
(***************************************************************************)
\* *manifest.Environment; NilMft is the nil pointer.
NilMft == [nil |-> TRUE, Name |-> "", Type |-> ""]

MockMft == [nil |-> FALSE, Name |-> "mockEnv", Type |-> "Environment"]

\* DeployEnvironmentInput (env.go:112-117).
DeployInputs ==
    {[RootUserARN |-> "", CustomResourcesURLs |-> NilMap,
      Manifest |-> NilMft, RawManifest |-> ""],
     [RootUserARN |-> "mockRootUserARN",
      CustomResourcesURLs |-> MakeMap({<<"mockResource", "mockURL">>}),
      Manifest |-> MockMft, RawManifest |-> "name: mockEnv"],
     [RootUserARN |-> "otherRootUserARN",
      CustomResourcesURLs |-> MakeMap({<<"CustomDomainFunction", "https://mockURL/customdomainfunction">>}),
      Manifest |-> MockMft, RawManifest |-> ""]}

\* deploy.LatestEnvTemplateVersion.
LatestEnvTemplateVersion == "v1.13.0"

\* partitions.Region(region).Partition(): the partition of an AWS region, or
\* an error for a name that belongs to no partition.
Partition(region) ==
    CASE region = "us-west-2" -> [id |-> "aws", err |-> NoErr]
      [] OTHER -> [id |-> "", err |-> Errorf(<<"find the partition for region ", region>>)]

\* s3.FormatARN(partition, bucket).
FormatARN(partition, bucket) == <<"arn:", partition, ":s3:::", bucket>>

\* *deploy.CreateEnvironmentInput; NilStackInput is the nil pointer.
NilStackInput ==
    [nil |-> TRUE, Name |-> "",
     App |-> [Name |-> "", Domain |-> "", AccountPrincipalARN |-> ""],
     AdditionalTags |-> {}, CustomResourcesURLs |-> NilMap,
     ArtifactBucketARN |-> <<>>, ArtifactBucketKeyARN |-> "",
     Mft |-> NilMft, RawMft |-> "", Version |-> ""]

(***************************************************************************)
(* envDeployer.buildStackInput (env.go:167-191)                            *)
(***************************************************************************)
buildStackInput_swapped(d, in, lookupAns) ==
    LET r == getAppRegionalResources(d, lookupAns)
        partition == Partition(d.env.Region)
    IN IF ~r.err.nil
       THEN [input |-> NilStackInput, err |-> r.err, calls |-> r.calls, res |-> r.res, cache |-> r.cache]
       ELSE IF ~partition.err.nil
       THEN [input |-> NilStackInput, err |-> partition.err, calls |-> r.calls, res |-> r.res, cache |-> r.cache]
       ELSE [input |->
                [nil |-> FALSE,
                 Name |-> d.app.Name,
                 App |-> [Name |-> d.env.Name, Domain |-> d.app.Domain,
                          AccountPrincipalARN |-> in.RootUserARN],
                 AdditionalTags |-> d.app.Tags,
                 CustomResourcesURLs |-> in.CustomResourcesURLs,
                 ArtifactBucketARN |-> FormatARN(partition.id, r.res.S3Bucket),
                 ArtifactBucketKeyARN |-> r.res.KMSKeyARN,
                 Mft |-> in.Manifest,
                 RawMft |-> in.RawManifest,
                 Version |-> LatestEnvTemplateVersion],
             err |-> NoErr, calls |-> r.calls, res |-> r.res, cache |-> r.cache]

buildStackInput(d, in, lookupAns) ==
    LET r == getAppRegionalResources(d, lookupAns)
        partition == Partition(d.env.Region)
    IN IF ~r.err.nil
       THEN [input |-> NilStackInput, err |-> r.err, calls |-> r.calls, res |-> r.res, cache |-> r.cache]
       ELSE IF ~partition.err.nil
       THEN [input |-> NilStackInput, err |-> partition.err, calls |-> r.calls, res |-> r.res, cache |-> r.cache]
       ELSE [input |->
                [nil |-> FALSE,
                 Name |-> d.env.Name,
                 App |-> [Name |-> d.app.Name, Domain |-> d.app.Domain,
                          AccountPrincipalARN |-> in.RootUserARN],
                 AdditionalTags |-> d.app.Tags,
                 CustomResourcesURLs |-> in.CustomResourcesURLs,
                 ArtifactBucketARN |-> FormatARN(partition.id, r.res.S3Bucket),
                 ArtifactBucketKeyARN |-> r.res.KMSKeyARN,
                 Mft |-> in.Manifest,
                 RawMft |-> in.RawManifest,
                 Version |-> LatestEnvTemplateVersion],
             err |-> NoErr, calls |-> r.calls, res |-> r.res, cache |-> r.cache]

(***************************************************************************)
(* The parameters of the deployed stack and the stack serializer           *)
(*                                                                         *)
(* The serializer is the collaborator that d.newStackSerializer returns    *)
(* (env.go:39-42, 52); the deployer sees only the string and the error     *)
(* that Template and SerializedParameters answer with.                     *)
(***************************************************************************)
\* []*awscfn.Parameter is a sequence of <<key, value>>; nil is <<>>.
\* The parameter sets a deployed stack can have.
PrevParamChoices ==
    {<<>>,
     << <<"AppName", "oldApp">>, <<"ALBWorkloads", "frontend">> >>,
     << <<"AppName", "oldApp">>, <<"ALBWorkloads", "frontend,api">>,
        <<"EFSWorkloads", "db">>, <<"ToolsAccountPrincipalARN", "oldRootUserARN">> >>}

\* Answers of envDeployer.EnvironmentParameters.
ParamAnswers ==
    {[params |-> p, err |-> NoErr] : p \in PrevParamChoices}
    \cup {[params |-> <<>>, err |-> ErrorsNew("some error")]}

\* Answers of stackSerializer.Template: the template text and the error.
TemplateAnswers ==
    {[tpl |-> "", err |-> ErrorsNew("some error")],
     [tpl |-> "", err |-> NoErr],
     [tpl |-> "aloo", err |-> NoErr]}

\* Answers of stackSerializer.SerializedParameters: the parameter text and
\* the error.
SerializedParametersAnswers ==
    {[params |-> "", err |-> ErrorsNew("some error")],
     [params |-> "gobi", err |-> NoErr]}

\* *GenerateCloudFormationTemplateOutput; NilOutput is the nil pointer.
NilOutput == [nil |-> TRUE, Template |-> "", Parameters |-> ""]

(***************************************************************************)
(* envDeployer.GenerateCloudFormationTemplate (env.go:120-142)             *)
(***************************************************************************)
GenerateCloudFormationTemplateOp_deploys(d, in, lookupAns, paramAns, tplAns, parAns) ==
    LET b == buildStackInput(d, in, lookupAns)
        describe == Call("EnvironmentParameters", <<d.app.Name, d.env.Name>>, paramAns)
        new == Call("newStackSerializer", <<b.input, paramAns.params>>, NoErr)
        tpl == tplAns
        params == parAns
        fail(e, cs) == [out |-> NilOutput, err |-> e, calls |-> cs,
                        res |-> b.res, cache |-> b.cache]
    IN IF ~b.err.nil THEN fail(b.err, b.calls)
       ELSE IF ~paramAns.err.nil
       THEN fail(ErrorfW(<<"describe environment stack parameters: ">>, paramAns.err),
                 b.calls \o <<describe>>)
       ELSE IF ~tpl.err.nil
       THEN fail(ErrorfW(<<"generate stack template: ">>, tpl.err),
                 b.calls \o <<describe, new, Call("Template", <<>>, tpl)>>)
       ELSE IF ~params.err.nil
       THEN fail(ErrorfW(<<"generate stack template parameters: ">>, params.err),
                 b.calls \o <<describe, new, Call("Template", <<>>, tpl),
                               Call("SerializedParameters", <<>>, params)>>)
       ELSE [out |-> [nil |-> FALSE, Template |-> tpl.tpl, Parameters |-> params.params],
             err |-> NoErr,
             calls |-> b.calls \o <<describe, new, Call("Template", <<>>, tpl),
                                    Call("SerializedParameters", <<>>, params),
                                    Call("UpdateAndRenderEnvironment",
                                         <<"os.Stderr", b.input, <<>> >>, NoErr)>>,
             res |-> b.res, cache |-> b.cache]

GenerateCloudFormationTemplateOp_ignoresDescribe(d, in, lookupAns, paramAns, tplAns, parAns) ==
    LET b == buildStackInput(d, in, lookupAns)
        describe == Call("EnvironmentParameters", <<d.app.Name, d.env.Name>>, paramAns)
        new == Call("newStackSerializer", <<b.input, paramAns.params>>, NoErr)
        tpl == tplAns
        params == parAns
        fail(e, cs) == [out |-> NilOutput, err |-> e, calls |-> cs,
                        res |-> b.res, cache |-> b.cache]
    IN IF ~b.err.nil THEN fail(b.err, b.calls)
       ELSE IF ~tpl.err.nil
       THEN fail(ErrorfW(<<"generate stack template: ">>, tpl.err),
                 b.calls \o <<describe, new, Call("Template", <<>>, tpl)>>)
       ELSE IF ~params.err.nil
       THEN fail(ErrorfW(<<"generate stack template parameters: ">>, params.err),
                 b.calls \o <<describe, new, Call("Template", <<>>, tpl),
                               Call("SerializedParameters", <<>>, params)>>)
       ELSE [out |-> [nil |-> FALSE, Template |-> tpl.tpl, Parameters |-> params.params],
             err |-> NoErr,
             calls |-> b.calls \o <<describe, new, Call("Template", <<>>, tpl),
                                    Call("SerializedParameters", <<>>, params)>>,
             res |-> b.res, cache |-> b.cache]

GenerateCloudFormationTemplateOp_paramsFirst(d, in, lookupAns, paramAns, tplAns, parAns) ==
    LET b == buildStackInput(d, in, lookupAns)
        describe == Call("EnvironmentParameters", <<d.app.Name, d.env.Name>>, paramAns)
        new == Call("newStackSerializer", <<b.input, paramAns.params>>, NoErr)
        tpl == tplAns
        params == parAns
        fail(e, cs) == [out |-> NilOutput, err |-> e, calls |-> cs,
                        res |-> b.res, cache |-> b.cache]
    IN IF ~b.err.nil THEN fail(b.err, b.calls)
       ELSE IF ~paramAns.err.nil
       THEN fail(ErrorfW(<<"describe environment stack parameters: ">>, paramAns.err),
                 b.calls \o <<describe>>)
       ELSE IF ~params.err.nil
       THEN fail(ErrorfW(<<"generate stack template parameters: ">>, params.err),
                 b.calls \o <<describe, new, Call("SerializedParameters", <<>>, params)>>)
       ELSE IF ~tpl.err.nil
       THEN fail(ErrorfW(<<"generate stack template: ">>, tpl.err),
                 b.calls \o <<describe, new, Call("SerializedParameters", <<>>, params),
                               Call("Template", <<>>, tpl)>>)
       ELSE [out |-> [nil |-> FALSE, Template |-> tpl.tpl, Parameters |-> params.params],
             err |-> NoErr,
             calls |-> b.calls \o <<describe, new, Call("Template", <<>>, tpl),
                                    Call("SerializedParameters", <<>>, params)>>,
             res |-> b.res, cache |-> b.cache]

GenerateCloudFormationTemplateOp_noParams(d, in, lookupAns, paramAns, tplAns, parAns) ==
    LET b == buildStackInput(d, in, lookupAns)
        describe == Call("EnvironmentParameters", <<d.app.Name, d.env.Name>>, paramAns)
        new == Call("newStackSerializer", <<b.input, paramAns.params>>, NoErr)
        tpl == tplAns
        params == parAns
        fail(e, cs) == [out |-> NilOutput, err |-> e, calls |-> cs,
                        res |-> b.res, cache |-> b.cache]
    IN IF ~b.err.nil THEN fail(b.err, b.calls)
       ELSE IF ~paramAns.err.nil
       THEN fail(ErrorfW(<<"describe environment stack parameters: ">>, paramAns.err),
                 b.calls \o <<describe>>)
       ELSE IF ~tpl.err.nil
       THEN fail(ErrorfW(<<"generate stack template: ">>, tpl.err),
                 b.calls \o <<describe, new, Call("Template", <<>>, tpl)>>)
       ELSE IF ~params.err.nil
       THEN fail(ErrorfW(<<"generate stack template parameters: ">>, params.err),
                 b.calls \o <<describe, new, Call("Template", <<>>, tpl),
                               Call("SerializedParameters", <<>>, params)>>)
       ELSE [out |-> [nil |-> FALSE, Template |-> tpl.tpl, Parameters |-> ""],
             err |-> NoErr,
             calls |-> b.calls \o <<describe, new, Call("Template", <<>>, tpl),
                                    Call("SerializedParameters", <<>>, params)>>,
             res |-> b.res, cache |-> b.cache]

GenerateCloudFormationTemplateOp(d, in, lookupAns, paramAns, tplAns, parAns) ==
    LET b == buildStackInput(d, in, lookupAns)
        describe == Call("EnvironmentParameters", <<d.app.Name, d.env.Name>>, paramAns)
        new == Call("newStackSerializer", <<b.input, paramAns.params>>, NoErr)
        tpl == tplAns
        params == parAns
        fail(e, cs) == [out |-> NilOutput, err |-> e, calls |-> cs,
                        res |-> b.res, cache |-> b.cache]
    IN IF ~b.err.nil THEN fail(b.err, b.calls)
       ELSE IF ~paramAns.err.nil
       THEN fail(ErrorfW(<<"describe environment stack parameters: ">>, paramAns.err),
                 b.calls \o <<describe>>)
       ELSE IF ~tpl.err.nil
       THEN fail(ErrorfW(<<"generate stack template: ">>, tpl.err),
                 b.calls \o <<describe, new, Call("Template", <<>>, tpl)>>)
       ELSE IF ~params.err.nil
       THEN fail(ErrorfW(<<"generate stack template parameters: ">>, params.err),
                 b.calls \o <<describe, new, Call("Template", <<>>, tpl),
                               Call("SerializedParameters", <<>>, params)>>)
       ELSE [out |-> [nil |-> FALSE, Template |-> tpl.tpl, Parameters |-> params.params],
             err |-> NoErr,
             calls |-> b.calls \o <<describe, new, Call("Template", <<>>, tpl),
                                    Call("SerializedParameters", <<>>, params)>>,
             res |-> b.res, cache |-> b.cache]

(***************************************************************************)
(* envDeployer.DeployEnvironment (env.go:145-151)                          *)
(***************************************************************************)
\* Answers of envDeployer.UpdateAndRenderEnvironment: nil or an error.
DeployAnswers == {NoErr} \cup Causes

\* cloudformation.WithRoleARN(arn).
WithRoleARN(arn) == <<"WithRoleARN", arn>>

DeployEnvironmentOp_wrapped(d, in, lookupAns, deployAns) ==
    LET b == buildStackInput(d, in, lookupAns)
        update == Call("UpdateAndRenderEnvironment",
                       <<"os.Stderr", b.input, <<WithRoleARN(d.env.ExecutionRoleARN)>> >>,
                       deployAns)
    IN IF ~b.err.nil
       THEN [err |-> b.err, calls |-> b.calls, res |-> b.res, cache |-> b.cache]
       ELSE [err |-> IF deployAns.nil THEN NoErr
                      ELSE ErrorfW(<<"deploy environment: ">>, deployAns), calls |-> b.calls \o <<update>>,
             res |-> b.res, cache |-> b.cache]

DeployEnvironmentOp_managerRole(d, in, lookupAns, deployAns) ==
    LET b == buildStackInput(d, in, lookupAns)
        update == Call("UpdateAndRenderEnvironment",
                       <<"os.Stderr", b.input, <<WithRoleARN(d.env.ManagerRoleARN)>> >>,
                       deployAns)
    IN IF ~b.err.nil
       THEN [err |-> b.err, calls |-> b.calls, res |-> b.res, cache |-> b.cache]
       ELSE [err |-> deployAns, calls |-> b.calls \o <<update>>,
             res |-> b.res, cache |-> b.cache]

DeployEnvironmentOp_retries(d, in, lookupAns, deployAns) ==
    LET b == buildStackInput(d, in, lookupAns)
        update == Call("UpdateAndRenderEnvironment",
                       <<"os.Stderr", b.input, <<WithRoleARN(d.env.ExecutionRoleARN)>> >>,
                       deployAns)
    IN IF ~b.err.nil
       THEN [err |-> b.err, calls |-> b.calls, res |-> b.res, cache |-> b.cache]
       ELSE [err |-> deployAns,
             calls |-> b.calls \o (IF deployAns.nil THEN <<update>> ELSE <<update, update>>),
             res |-> b.res, cache |-> b.cache]

DeployEnvironmentOp_describes(d, in, lookupAns, deployAns) ==
    LET b == buildStackInput(d, in, lookupAns)
        describe == Call("EnvironmentParameters", <<d.app.Name, d.env.Name>>,
                         [params |-> <<>>, err |-> ErrorsNew("some error")])
        update == Call("UpdateAndRenderEnvironment",
                       <<"os.Stderr", b.input, <<WithRoleARN(d.env.ExecutionRoleARN)>> >>,
                       deployAns)
    IN IF ~b.err.nil
       THEN [err |-> b.err, calls |-> b.calls, res |-> b.res, cache |-> b.cache]
       ELSE [err |-> ErrorfW(<<"describe environment stack parameters: ">>,
                             ErrorsNew("some error")),
             calls |-> b.calls \o <<describe>>,
             res |-> b.res, cache |-> b.cache]

DeployEnvironmentOp(d, in, lookupAns, deployAns) ==
    LET b == buildStackInput(d, in, lookupAns)
        update == Call("UpdateAndRenderEnvironment",
                       <<"os.Stderr", b.input, <<WithRoleARN(d.env.ExecutionRoleARN)>> >>,
                       deployAns)
    IN IF ~b.err.nil
       THEN [err |-> b.err, calls |-> b.calls, res |-> b.res, cache |-> b.cache]
       ELSE [err |-> deployAns, calls |-> b.calls \o <<update>>,
             res |-> b.res, cache |-> b.cache]

(***************************************************************************)
(* The environment template (templates/environment/cf.yml)                 *)
(*                                                                         *)
(* The rendered template is the sequence of its resources and the sequence *)
(* of its outputs, in the order of the document.  An entry records         *)
(*   id     the logical ID <<name, n>>; n is 0 for an ID without a number  *)
(*   refs   the logical IDs it refers to with !Ref or !GetAtt, among the   *)
(*          resources that the template declares conditionally             *)
(*   ext    the identifiers supplied from outside that it uses             *)
(*   certs  the entries of its Certificates property                       *)
(* The data of the template is [VPCConfig, PublicImportedCertARNs,         *)
(* PrivateImportedCertARNs, CustomInternalALBSubnets].                     *)
(***************************************************************************)
\* Imported certificates of one listener are at most this many.
MaxCerts == 3

\* Subnets of one kind in a managed VPC are at most this many.
MaxSubnets == 2

LogicalID(name, n) == <<name, n>>

Entry(id, refs, ext, certs) == [id |-> id, refs |-> refs, ext |-> ext, certs |-> certs]

\* The elements of a sequence.
Range(seq) == {seq[i] : i \in 1..Len(seq)}

\* The template function inc, applied to the index of a range: the TLA+
\* index i of a sequence is the Go index i - 1.
inc(ind) == ind + 1

\* A certificate of a listener: an ARN written into the template, or a
\* reference to a certificate that the template declares.
ImportedCert(arn) == [imported |-> TRUE, v |-> arn]
ManagedCert(name) == [imported |-> FALSE, v |-> name]

\* {{include "vpc-resources" .VPCConfig.Managed}} (cf.yml:64): the VPC, its
\* gateway, the public route table and one subnet per CIDR.
VPCResources(managed) ==
    <<Entry(LogicalID("VPC", 0), {}, {}, <<>>),
      Entry(LogicalID("PublicRouteTable", 0), {LogicalID("VPC", 0)}, {}, <<>>),
      Entry(LogicalID("InternetGateway", 0), {}, {}, <<>>)>>
    \o [i \in 1..Len(managed.PublicSubnetCIDRs) |->
          Entry(LogicalID("PublicSubnet", inc(i - 1)), {LogicalID("VPC", 0)}, {}, <<>>)]
    \o [i \in 1..Len(managed.PrivateSubnetCIDRs) |->
          Entry(LogicalID("PrivateSubnet", inc(i - 1)), {LogicalID("VPC", 0)}, {}, <<>>)]

\* {{include "nat-gateways" .VPCConfig.Managed}} (cf.yml:65): one private
\* route table per private subnet.
NATGateways(managed) ==
    [i \in 1..Len(managed.PrivateSubnetCIDRs) |->
        Entry(LogicalID("PrivateRouteTable", inc(i - 1)), {LogicalID("VPC", 0)}, {}, <<>>)]

\* The VPC of a resource: the imported ID or !Ref VPC (cf.yml:76-80 and the
\* blocks of the same shape).
VpcOf(name, data) ==
    IF ~data.VPCConfig.Imported.nil
    THEN Entry(LogicalID(name, 0), {}, {data.VPCConfig.Imported.ID}, <<>>)
    ELSE Entry(LogicalID(name, 0), {LogicalID("VPC", 0)}, {}, <<>>)

\* cf.yml:63-66.
VPCBlocks(data) ==
    IF data.VPCConfig.Imported.nil
    THEN VPCResources(data.VPCConfig.Managed) \o NATGateways(data.VPCConfig.Managed)
    ELSE <<>>

\* cf.yml:212-227.
PublicLoadBalancer(data) ==
    IF ~data.VPCConfig.Imported.nil
    THEN Entry(LogicalID("PublicLoadBalancer", 0), {},
               Range(data.VPCConfig.Imported.PublicSubnetIDs), <<>>)
    ELSE Entry(LogicalID("PublicLoadBalancer", 0),
               {LogicalID("PublicSubnet", inc(i - 1)) :
                   i \in 1..Len(data.VPCConfig.Managed.PublicSubnetCIDRs)},
               {}, <<>>)

\* cf.yml:259-276.
HTTPSListener_both(data) ==
    Entry(LogicalID("HTTPSListener", 0),
          {LogicalID("HTTPSCert", 0)}, {},
          IF Len(data.PublicImportedCertARNs) > 0
          THEN <<ImportedCert(data.PublicImportedCertARNs[1]), ManagedCert("HTTPSCert")>>
          ELSE <<ManagedCert("HTTPSCert")>>)

HTTPSListener(data) ==
    IF Len(data.PublicImportedCertARNs) > 0
    THEN Entry(LogicalID("HTTPSListener", 0), {}, {},
               <<ImportedCert(data.PublicImportedCertARNs[1])>>)
    ELSE Entry(LogicalID("HTTPSListener", 0), {LogicalID("HTTPSCert", 0)}, {},
               <<ManagedCert("HTTPSCert")>>)

\* The ListenerCertificate blocks of a list of imported certificates
\* (cf.yml:277-287 and 353-363): one for every index greater than 0.
ImportCertificates_fromFirst(name, listener, arns) ==
    [i \in 1..Len(arns) |->
        Entry(LogicalID(name, inc(i - 1)), {LogicalID(listener, 0)}, {},
              <<ImportedCert(arns[i])>>)]

ImportCertificates(name, listener, arns) ==
    [k \in 1..(IF Len(arns) > 0 THEN Len(arns) - 1 ELSE 0) |->
        Entry(LogicalID(name, inc(k)), {LogicalID(listener, 0)}, {},
              <<ImportedCert(arns[k + 1])>>)]

\* cf.yml:288-305.
InternalLoadBalancer(data) ==
    IF Len(data.CustomInternalALBSubnets) > 0
    THEN Entry(LogicalID("InternalLoadBalancer", 0), {},
               Range(data.CustomInternalALBSubnets), <<>>)
    ELSE IF ~data.VPCConfig.Imported.nil
    THEN Entry(LogicalID("InternalLoadBalancer", 0), {},
               Range(data.VPCConfig.Imported.PrivateSubnetIDs), <<>>)
    ELSE Entry(LogicalID("InternalLoadBalancer", 0),
               {LogicalID("PrivateSubnet", inc(i - 1)) :
                   i \in 1..Len(data.VPCConfig.Managed.PrivateSubnetCIDRs)},
               {}, <<>>)

\* cf.yml:337-352.
InternalHTTPSListener(data) ==
    Entry(LogicalID("InternalHTTPSListener", 0), {}, {},
          IF Len(data.PrivateImportedCertARNs) > 0
          THEN <<ImportedCert(data.PrivateImportedCertARNs[1])>>
          ELSE <<>>)

\* cf.yml:364-380.
InternalWorkloadsHostedZone(data) ==
    IF Len(data.PrivateImportedCertARNs) = 0
    THEN <<VpcOf("InternalWorkloadsHostedZone", data)>>
    ELSE <<>>

\* cf.yml:441-463.
MountTargets(data) ==
    IF ~data.VPCConfig.Imported.nil
    THEN [i \in 1..Len(data.VPCConfig.Imported.PrivateSubnetIDs) |->
            Entry(LogicalID("MountTarget", inc(i - 1)), {},
                  {data.VPCConfig.Imported.PrivateSubnetIDs[i]}, <<>>)]
    ELSE [i \in 1..Len(data.VPCConfig.Managed.PrivateSubnetCIDRs) |->
            Entry(LogicalID("MountTarget", inc(i - 1)),
                  {LogicalID("PrivateSubnet", inc(i - 1))}, {}, <<>>)]

\* cf.yml:464-477: the hosted zone of the environment and the custom
\* resources, among them the managed certificate HTTPSCert.
CustomResources(data) ==
    IF Len(data.PublicImportedCertARNs) = 0
    THEN <<Entry(LogicalID("EnvironmentHostedZone", 0), {}, {}, <<>>),
           Entry(LogicalID("HTTPSCert", 0), {LogicalID("EnvironmentHostedZone", 0)}, {}, <<>>)>>
    ELSE <<>>

\* The Resources section (cf.yml:58-477).
TemplateResources(data) ==
    VPCBlocks(data)
    \o <<VpcOf("ServiceDiscoveryNamespace", data),
         VpcOf("PublicLoadBalancerSecurityGroup", data),
         VpcOf("InternalLoadBalancerSecurityGroup", data),
         VpcOf("EnvironmentSecurityGroup", data),
         PublicLoadBalancer(data),
         VpcOf("DefaultHTTPTargetGroup", data),
         HTTPSListener(data)>>
    \o ImportCertificates("HTTPSImportCertificate", "HTTPSListener",
                          data.PublicImportedCertARNs)
    \o <<InternalLoadBalancer(data),
         VpcOf("DefaultInternalHTTPTargetGroup", data),
         InternalHTTPSListener(data)>>
    \o ImportCertificates("InternalHTTPSImportCertificate", "InternalHTTPSListener",
                          data.PrivateImportedCertARNs)
    \o InternalWorkloadsHostedZone(data)
    \o <<VpcOf("EFSSecurityGroup", data)>>
    \o MountTargets(data)
    \o CustomResources(data)

\* The Outputs VpcId .. PrivateRouteTableIDs (cf.yml:478-527).
SubnetsOutput(name, resource, ids, cidrs, data) ==
    IF data.VPCConfig.Imported.nil
    THEN <<Entry(LogicalID(name, 0),
                 {LogicalID(resource, inc(i - 1)) : i \in 1..Len(cidrs)}, {}, <<>>)>>
    ELSE IF Len(ids) # 0
    THEN <<Entry(LogicalID(name, 0), {}, Range(ids), <<>>)>>
    ELSE <<>>

VPCOutputs(data) ==
    <<VpcOf("VpcId", data)>>
    \o SubnetsOutput("PublicSubnets", "PublicSubnet",
                     data.VPCConfig.Imported.PublicSubnetIDs,
                     data.VPCConfig.Managed.PublicSubnetCIDRs, data)
    \o SubnetsOutput("PrivateSubnets", "PrivateSubnet",
                     data.VPCConfig.Imported.PrivateSubnetIDs,
                     data.VPCConfig.Managed.PrivateSubnetCIDRs, data)
    \o (IF data.VPCConfig.Imported.nil
        THEN <<Entry(LogicalID("InternetGatewayID", 0),
                     {LogicalID("InternetGateway", 0)}, {}, <<>>),
               Entry(LogicalID("PublicRouteTableID", 0),
                     {LogicalID("PublicRouteTable", 0)}, {}, <<>>),
               Entry(LogicalID("PrivateRouteTableIDs", 0),
                     {LogicalID("PrivateRouteTable", inc(i - 1)) :
                         i \in 1..Len(data.VPCConfig.Managed.PrivateSubnetCIDRs)},
                     {}, <<>>)>>
        ELSE <<>>)

\* The Outputs InternalWorkloadsHostedZone and
\* InternalWorkloadsHostedZoneName (cf.yml:581-592).
InternalWorkloadsHostedZoneOutputs_unguarded(data) ==
    <<Entry(LogicalID("InternalWorkloadsHostedZone", 0),
            {LogicalID("InternalWorkloadsHostedZone", 0)}, {}, <<>>),
      Entry(LogicalID("InternalWorkloadsHostedZoneName", 0), {}, {}, <<>>)>>

InternalWorkloadsHostedZoneOutputs(data) ==
    IF Len(data.PrivateImportedCertARNs) = 0
    THEN <<Entry(LogicalID("InternalWorkloadsHostedZone", 0),
                 {LogicalID("InternalWorkloadsHostedZone", 0)}, {}, <<>>),
           Entry(LogicalID("InternalWorkloadsHostedZoneName", 0), {}, {}, <<>>)>>
    ELSE <<>>

\* The Outputs EnvironmentHostedZone and EnvironmentSubdomain
\* (cf.yml:622-635).
EnvironmentHostedZoneOutputs(data) ==
    IF Len(data.PublicImportedCertARNs) = 0
    THEN <<Entry(LogicalID("EnvironmentHostedZone", 0),
                 {LogicalID("EnvironmentHostedZone", 0)}, {}, <<>>),
           Entry(LogicalID("EnvironmentSubdomain", 0), {}, {}, <<>>)>>
    ELSE <<>>

\* The Outputs section (cf.yml:478-645).
TemplateOutputs(data) ==
    VPCOutputs(data)
    \o <<Entry(LogicalID("HTTPSListenerArn", 0), {LogicalID("HTTPSListener", 0)}, {}, <<>>)>>
    \o InternalWorkloadsHostedZoneOutputs(data)
    \o <<Entry(LogicalID("InternalHTTPSListenerArn", 0),
               {LogicalID("InternalHTTPSListener", 0)}, {}, <<>>)>>
    \o EnvironmentHostedZoneOutputs(data)

NotRendered == [rendered |-> FALSE, Resources |-> <<>>, Outputs |-> <<>>]

\* The template executed on its data.
Render(data) ==
    [rendered |-> TRUE,
     Resources |-> TemplateResources(data),
     Outputs |-> TemplateOutputs(data)]

(***************************************************************************)
(* The data the template is executed on                                    *)
(***************************************************************************)
CertARNs == {"cert-1", "cert-2"}

\* The lists of imported certificates of one listener.
CertLists == UNION {[1..n -> CertARNs] : n \in 0..MaxCerts}

CIDRs(n) == [i \in 1..n |-> <<"10.0", i>>]

NilImported == [nil |-> TRUE, ID |-> "", PublicSubnetIDs |-> <<>>, PrivateSubnetIDs |-> <<>>]

ImportedVPC(public, private) ==
    [nil |-> FALSE, ID |-> "mockVPCID", PublicSubnetIDs |-> public, PrivateSubnetIDs |-> private]

NoManaged == [PublicSubnetCIDRs |-> <<>>, PrivateSubnetCIDRs |-> <<>>]

MockPublicSubnetIDs == <<"mockPublicSubnet1", "mockPublicSubnet2">>

MockPrivateSubnetIDs == <<"mockPrivateSubnet1", "mockPrivateSubnet2">>

\* The subnets supplied for the internal load balancer: none, or a list
\* of subnet IDs.
CustomSubnetChoices == {<<>>, <<MockPrivateSubnetIDs[2]>>}

\* A VPC configuration and the placement of the internal load balancer; the
\* template takes a list of subnets for the internal load balancer with
\* either kind of VPC (cf.yml:296-297).
VPCChoices ==
    {[VPCConfig |-> [Imported |-> NilImported,
                     Managed |-> [PublicSubnetCIDRs |-> CIDRs(n),
                                  PrivateSubnetCIDRs |-> CIDRs(m)]],
      CustomInternalALBSubnets |-> custom] :
        n \in 1..MaxSubnets, m \in 1..MaxSubnets, custom \in CustomSubnetChoices}
    \cup
    {[VPCConfig |-> [Imported |-> ImportedVPC(pub, MockPrivateSubnetIDs), Managed |-> NoManaged],
      CustomInternalALBSubnets |-> custom] :
        pub \in {<<>>, MockPublicSubnetIDs},
        custom \in CustomSubnetChoices}
    \cup
    {[VPCConfig |-> [Imported |-> ImportedVPC(MockPublicSubnetIDs, <<>>), Managed |-> NoManaged],
      CustomInternalALBSubnets |-> <<>>]}

TemplateData ==
    {[VPCConfig |-> v.VPCConfig,
      CustomInternalALBSubnets |-> v.CustomInternalALBSubnets,
      PublicImportedCertARNs |-> pub,
      PrivateImportedCertARNs |-> priv] :
        v \in VPCChoices, pub \in CertLists, priv \in CertLists}

(***************************************************************************)
(* Service links of a Compose project (findLinkedServices)                 *)
(*                                                                         *)
(* A string that the code splits or matches against "service:" is the      *)
(* sequence of its parts between colons, as strings.Split(s, ":") returns  *)
(* them: "none" is <<"none">>, "service:web" is <<"service", "web">> and   *)
(* "" is <<"">>.  A service name has no colon and is a plain string.       *)
(* compose.ServiceConfig is [Name, NetworkMode, Links, Networks], with     *)
(* Networks the set of the keys of the map.                                *)
(***************************************************************************)
\* Services besides the one asked about are at most this many.
MaxOtherSvcs == 2

\* The text of a string, as fragments of an error message.
RECURSIVE Text(_)
Text(parts) ==
    IF Len(parts) <= 1 THEN parts
    ELSE <<Head(parts), ":">> \o Text(Tail(parts))

\* strings.HasPrefix(s, "service:") and strings.TrimPrefix(s, "service:").
HasPrefixService(s) == Len(s) >= 2 /\ s[1] = "service"

TrimPrefixService(s) == IF HasPrefixService(s) THEN Tail(s) ELSE s

\* m[k] = v on a Go map held as a set of pairs.
Put(m, k, v) == {p \in m : p[1] # k} \cup {<<k, v>>}

\* m[k] on a map of strings: the zero value "" for a missing key.
Get(m, k) == IF \E p \in m : p[1] = k THEN (CHOOSE p \in m : p[1] = k)[2] ELSE ""

\* The map renames: a link of exactly two parts maps the first to the second.
RECURSIVE renames(_)
renames(links) ==
    IF links = <<>> THEN {}
    ELSE LET link == links[Len(links)]
             before == renames(SubSeq(links, 1, Len(links) - 1))
         IN  IF Len(link) = 2 THEN Put(before, link[1], link[2]) ELSE before

\* The map networks of part_001: the networks of the service, or default.
networks(service) ==
    IF Cardinality(service.Networks) = 0 THEN {"default"} ELSE service.Networks

\* The slice netSvcs of part_001: the services on one of the networks.
netSvcs(nets, svcs) ==
    SelectSeq(svcs, LAMBDA svc :
        \/ \E net \in svc.Networks : net \in nets
        \/ Cardinality(svc.Networks) = 0 /\ "default" \in nets)

\* The map linked: every service under its alias, or under its name; a later
\* service of the slice replaces an earlier one with the same key.
RECURSIVE linked(_, _)
linked(names, svcs) ==
    IF svcs = <<>> THEN {}
    ELSE LET svc == svcs[Len(svcs)]
             alias == IF Get(names, svc.Name) = "" THEN svc.Name
                      ELSE Get(names, svc.Name)
         IN  Put(linked(names, SubSeq(svcs, 1, Len(svcs) - 1)), alias, svc)

\* The result (map, error) of findLinkedServices.
Linked(m) == [linked |-> MakeMap(m), err |-> NoErr]

LinkError(e) == [linked |-> NilMap, err |-> e]

findLinkedServices_noneIsDefault(service, otherSvcs) ==
    LET allSvcs == <<service>> \o otherSvcs
    IN  Linked(linked(renames(service.Links), netSvcs(networks(service), allSvcs)))

findLinkedServices_hostIsDefault(service, otherSvcs) ==
    LET allSvcs == <<service>> \o otherSvcs
        svcName == TrimPrefixService(service.NetworkMode)
        named == SelectSeq(allSvcs, LAMBDA svc : <<svc.Name>> = svcName)
        link(svcs) ==
            Linked(linked(renames(service.Links), netSvcs(networks(service), svcs)))
    IN  IF service.NetworkMode = <<"none">> THEN LinkError(NoErr)
        ELSE IF HasPrefixService(service.NetworkMode)
        THEN IF named = <<>>
             THEN LinkError(Errorf(<<"no service with the name \"">> \o Text(svcName)
                                   \o <<"\" found for network mode \"">>
                                   \o Text(service.NetworkMode) \o <<"\"">>))
             ELSE link(<<named[1]>>)
        ELSE link(allSvcs)

\* findLinkedServices of src/unnamed/part_001.
findLinkedServices(service, otherSvcs) ==
    LET allSvcs == <<service>> \o otherSvcs
        svcName == TrimPrefixService(service.NetworkMode)
        named == SelectSeq(allSvcs, LAMBDA svc : <<svc.Name>> = svcName)
        link(svcs) ==
            Linked(linked(renames(service.Links), netSvcs(networks(service), svcs)))
    IN  IF service.NetworkMode = <<"none">> THEN LinkError(NoErr)
        ELSE IF HasPrefixService(service.NetworkMode)
        THEN IF named = <<>>
             THEN LinkError(Errorf(<<"no service with the name \"">> \o Text(svcName)
                                   \o <<"\" found for network mode \"">>
                                   \o Text(service.NetworkMode) \o <<"\"">>))
             ELSE link(<<named[1]>>)
        ELSE IF service.NetworkMode = <<"host">>
        THEN LinkError(Errorf(<<"network mode \"">> \o Text(service.NetworkMode)
                              \o <<"\" is not supported">>))
        ELSE link(allSvcs)

\* findLinkedServices of dockercompose/network.go: it looks only at the other
\* services, keeps them all when none has the name of "service:<name>", and
\* filters by network only when the service declares networks.
networkGo_findLinkedServices(service, otherSvcs) ==
    LET svcName == TrimPrefixService(service.NetworkMode)
        named == SelectSeq(otherSvcs, LAMBDA svc : <<svc.Name>> = svcName)
        onNetworks(svcs) ==
            IF Cardinality(service.Networks) # 0
            THEN SelectSeq(svcs, LAMBDA svc :
                     \E net \in svc.Networks : net \in service.Networks)
            ELSE svcs
        link(svcs) == Linked(linked(renames(service.Links), onNetworks(svcs)))
    IN  IF service.NetworkMode = <<"none">> THEN LinkError(NoErr)
        ELSE IF HasPrefixService(service.NetworkMode)
        THEN link(IF named = <<>> THEN otherSvcs ELSE <<named[1]>>)
        ELSE IF service.NetworkMode = <<"host">>
        THEN LinkError(Errorf(<<"network mode \"">> \o Text(service.NetworkMode)
                              \o <<"\" is not supported">>))
        ELSE link(otherSvcs)

(***************************************************************************)
(* The service discovery addon (serviceLinkageAddon)                       *)
(***************************************************************************)
\* The orders in which a range statement may visit the entries of a Go map:
\* the language leaves the order open and the runtime varies it from one
\* loop to the next.
Orders(m) ==
    {order \in [1..Cardinality(m) -> m] :
        \A i, j \in 1..Cardinality(m) : order[i] = order[j] => i = j}

\* serviceDiscoveryAliases: one aliasLink per entry of the map, in the order
\* in which the range statement visits the entries.
serviceDiscoveryAliases(order) ==
    [i \in 1..Len(order) |-> [AliasName |-> order[i][1], TargetSvc |-> order[i][2].Name]]

\* Answers of the embedded template service-discovery-record.yml: the error
\* of tmpl.Parse and the error of tmpl.Execute.
AddonTemplateOK == [parse |-> NoErr, execute |-> NoErr]

AddonTemplateAnswers ==
    {AddonTemplateOK,
     [parse |-> ErrorsNew("some error"), execute |-> NoErr],
     [parse |-> NoErr, execute |-> ErrorsNew("some error")]}

\* The template service-discovery-record.yml executed on the alias links: one
\* record per alias link, in the order of the slice.
ExecuteServiceDiscoveryTemplate(aliasLinks) == aliasLinks

\* serviceLinkageAddon: the addon text and the error; order is the order in
\* which the range statement of serviceDiscoveryAliases visits the map and
\* tmplAns the answer of the template.
serviceLinkageAddon(service, otherSvcs, order, tmplAns) ==
    LET r == findLinkedServices(service, otherSvcs)
        aliasLinks == serviceDiscoveryAliases(order)
    IN  IF ~r.err.nil
        THEN [text |-> <<>>, err |-> r.err]
        ELSE IF ~tmplAns.parse.nil
        THEN [text |-> <<>>,
              err |-> ErrorfW(<<"parse service discovery addon template: ">>,
                              tmplAns.parse)]
        ELSE IF ~tmplAns.execute.nil
        THEN [text |-> <<>>,
              err |-> ErrorfW(<<"evaluate service discovery addon template: ">>,
                              tmplAns.execute)]
        ELSE [text |-> ExecuteServiceDiscoveryTemplate(aliasLinks), err |-> NoErr]

(***************************************************************************)
(* The Compose projects findLinkedServices is applied to                   *)
(***************************************************************************)
ServiceConfig(name, mode, links, nets) ==
    [Name |-> name, NetworkMode |-> mode, Links |-> links, Networks |-> nets]

NetworkModes ==
    {<<"">>, <<"none">>, <<"host">>, <<"service", "web">>, <<"service", "svc">>,
     <<"service", "notfound">>}

LinkChoices == {<<>>, << <<"web", "nginx">> >>, << <<"db">>, <<"web", "db">> >>}

NetworkChoices == {{}, {"default"}, {"one"}, {"one", "two"}}

\* The service asked about.
Services ==
    {ServiceConfig("svc", mode, links, nets) :
        mode \in NetworkModes, links \in LinkChoices, nets \in NetworkChoices}

OtherNames == {"web", "db", "cache"}

\* Another service of the project: its own network mode and links play no
\* part, its networks do.
Others ==
    {ServiceConfig(name, <<"">>, <<>>, nets) :
        name \in OtherNames, nets \in {{}, {"one"}, {"two"}}}
    \cup {ServiceConfig("db", <<"">>, << <<"svc", "app">> >>, {"default"}),
          ServiceConfig("web", <<"">>, <<>>, {"one", "two"})}

\* The other services of a project: their names are distinct.
OtherServices ==
    {svcs \in UNION {[1..n -> Others] : n \in 0..MaxOtherSvcs} :
        \A i, j \in 1..Len(svcs) : svcs[i].Name = svcs[j].Name => i = j}

(***************************************************************************)
(* albDescriber (package describe, cf.yml:862-927)                         *)
(*                                                                         *)
(* d is the describer [svc, env, envDNSNameKey].  The answers of its       *)
(* collaborators are the inputs: each is a record with the error it gives  *)
(* and the value it gives when the error is nil.  A result carries the     *)
(* returned albURI and error and the collaborator calls made, in order.    *)
(***************************************************************************)
envOutputPublicLoadBalancerDNSName == "PublicLoadBalancerDNSName"

envOutputInternalLoadBalancerDNSName == "InternalLoadBalancerDNSName"

svcStackResourceListenerRuleResourceType == "AWS::ElasticLoadBalancingV2::ListenerRule"

svcStackResourceHTTPSListenerRuleLogicalID == "HTTPSListenerRule"

svcStackResourceHTTPListenerRuleLogicalID == "HTTPListenerRule"

WorkloadRulePathParamKey == "RulePath"

WorkloadHTTPSParamKey == "HTTPSEnabled"

\* The zero value albURI{}.
ZeroALBURI == [HTTPS |-> FALSE, DNSNames |-> <<>>, Path |-> ""]

\* albDescriber.envDNSName (cf.yml:871-880).
envDNSName(d, path, outputsAns) ==
    LET cs == <<Call("Outputs", <<>>, outputsAns)>>
    IN  IF ~outputsAns.err.nil
        THEN [uri |-> ZeroALBURI,
              err |-> ErrorfW(<<"get stack outputs for environment ", d.env, ": ">>,
                              outputsAns.err),
              calls |-> cs]
        ELSE [uri |-> [HTTPS |-> FALSE,
                       DNSNames |-> <<Get(outputsAns.val, d.envDNSNameKey)>>,
                       Path |-> path],
              err |-> NoErr,
              calls |-> cs]

\* The loop of uri over the stack resources (cf.yml:901-910): the physical ID
\* of the first listener rule of the protocol in use, "" when there is none.
IsListenerRule(resource, httpsEnabled) ==
    /\ resource.Type = svcStackResourceListenerRuleResourceType
    /\ \/ httpsEnabled /\ resource.LogicalID = svcStackResourceHTTPSListenerRuleLogicalID
       \/ ~httpsEnabled /\ resource.LogicalID = svcStackResourceHTTPListenerRuleLogicalID

ruleARN(svcResources, httpsEnabled) ==
    LET hits == {i \in 1..Len(svcResources) : IsListenerRule(svcResources[i], httpsEnabled)}
    IN  IF hits = {} THEN ""
        ELSE svcResources[CHOOSE i \in hits : \A j \in hits : i <= j].PhysicalID

\* albDescriber.uri (cf.yml:882-927).  When initLBDescriber fails the method
\* returns albURI{} with a nil error (cf.yml:911-914).
uri(d, paramsAns, resourcesAns, lbAns, headersAns, outputsAns) ==
    LET c1 == <<Call("Params", <<>>, paramsAns)>>
        path == Get(paramsAns.val, WorkloadRulePathParamKey)
        httpsEnabled == Get(paramsAns.val, WorkloadHTTPSParamKey) = "true"
        c2 == c1 \o <<Call("ServiceStackResources", <<>>, resourcesAns)>>
        arn == ruleARN(resourcesAns.val, httpsEnabled)
        c3 == c2 \o <<Call("initLBDescriber", <<d.env>>, lbAns)>>
        c4 == c3 \o <<Call("ListenerRuleHostHeaders", <<arn>>, headersAns)>>
        viaEnv(cs) == LET r == envDNSName(d, path, outputsAns)
                      IN  [uri |-> r.uri, err |-> r.err, calls |-> cs \o r.calls]
    IN  IF ~paramsAns.err.nil
        THEN [uri |-> ZeroALBURI,
              err |-> ErrorfW(<<"get stack parameters for service ", d.svc, ": ">>,
                              paramsAns.err),
              calls |-> c1]
        ELSE IF d.envDNSNameKey = envOutputPublicLoadBalancerDNSName /\ ~httpsEnabled
        THEN viaEnv(c1)
        ELSE IF ~resourcesAns.err.nil
        THEN [uri |-> ZeroALBURI,
              err |-> ErrorfW(<<"get stack resources for service ", d.svc, ": ">>,
                              resourcesAns.err),
              calls |-> c2]
        ELSE IF ~lbAns.err.nil
        THEN [uri |-> ZeroALBURI, err |-> NoErr, calls |-> c3]
        ELSE IF ~headersAns.err.nil
        THEN [uri |-> ZeroALBURI,
              err |-> ErrorfW(<<"get host headers for listener rule ", arn, ": ">>,
                              headersAns.err),
              calls |-> c4]
        ELSE IF Len(headersAns.val) = 0
        THEN viaEnv(c4)
        ELSE [uri |-> [HTTPS |-> httpsEnabled, DNSNames |-> headersAns.val, Path |-> path],
              err |-> NoErr,
              calls |-> c4]

\* The describers uri is called on and the answers of their collaborators.
Fails(val) == [err |-> ErrorsNew("some error"), val |-> val]

Gives(val) == [err |-> NoErr, val |-> val]

ALBDescribers ==
    [svc : {"jobs"}, env : {"test"},
     envDNSNameKey : {envOutputPublicLoadBalancerDNSName,
                      envOutputInternalLoadBalancerDNSName}]

SvcParams ==
    {{<<WorkloadRulePathParamKey, path>>, <<WorkloadHTTPSParamKey, https>>} :
        path \in {"/", "mySvc"}, https \in {"true", "false"}}

SvcParamsAnswers == {Fails({})} \cup {Gives(m) : m \in SvcParams}

Resource(type, logicalID, physicalID) ==
    [Type |-> type, LogicalID |-> logicalID, PhysicalID |-> physicalID]

HTTPRule ==
    Resource(svcStackResourceListenerRuleResourceType,
             svcStackResourceHTTPListenerRuleLogicalID, "http-rule-arn")

HTTPSRule ==
    Resource(svcStackResourceListenerRuleResourceType,
             svcStackResourceHTTPSListenerRuleLogicalID, "https-rule-arn")

TargetGroup == Resource("AWS::ElasticLoadBalancingV2::TargetGroup", "TargetGroup", "tg-arn")

SvcResourcesAnswers ==
    {Fails(<<>>), Gives(<<>>), Gives(<<TargetGroup, HTTPRule>>),
     Gives(<<TargetGroup, HTTPSRule, HTTPRule>>)}

LBDescriberAnswers == {Fails("lbDescriber"), Gives("lbDescriber")}

HostHeadersAnswers ==
    {Fails(<<>>), Gives(<<>>), Gives(<<"jobs.test.phonetool.internal">>),
     Gives(<<"example.com", "v1.example.com">>)}

EnvOutputs ==
    {<<envOutputPublicLoadBalancerDNSName, "abc.us-west-1.elb.amazonaws.com">>,
     <<envOutputInternalLoadBalancerDNSName, "internal-abc.us-west-1.elb.amazonaws.com">>}

EnvOutputsAnswers == {Fails({}), Gives(EnvOutputs)}

URIInputs ==
    [d : ALBDescribers, params : SvcParamsAnswers, resources : SvcResourcesAnswers,
     lb : LBDescriberAnswers, headers : HostHeadersAnswers, outputs : EnvOutputsAnswers]

(***************************************************************************)
(* State of one envDeployer instance and of its last operation             *)
(***************************************************************************)
VARIABLES
    app,                    \* d.app
    env,                    \* d.env
    appRegionalResources,   \* d.appRegionalResources, the cached resources
    op,                     \* the last public operation called
    opIn,                   \* its DeployEnvironmentInput
    calls,                  \* the collaborator calls it made, in order
    res,                    \* the regional resources it resolved, or NilRes
    urls,                   \* the map returned by UploadArtifacts
    out,                    \* the output returned by GenerateCloudFormationTemplate
    err,                    \* the error it returned
    resolved,               \* the resources of the first successful resolve
    lookupCount             \* calls of GetAppResourcesByRegion so far

\* The environment template and one execution of it.
VARIABLES
    tplData,                \* the data the template is executed on
    tplOut                  \* the rendered template, or NotRendered

envVars == <<app, env, appRegionalResources, op, opIn, calls, res, urls, out, err,
             resolved, lookupCount>>

tplVars == <<tplData, tplOut>>

\* One call of findLinkedServices, answered by both copies of the function.
VARIABLES
    linkIn,                 \* its arguments [service, otherSvcs]
    linkOut,                \* the result of the copy in src/unnamed/part_001
    linkOutNetworkGo,       \* the result of the copy in dockercompose/network.go
    addon,                  \* the last result of serviceLinkageAddon
    addonTmpl               \* the answer of the addon's embedded template

linkVars == <<linkIn, linkOut, linkOutNetworkGo, addon, addonTmpl>>

\* One call of albDescriber.uri.
VARIABLES
    uriIn,                  \* the describer and the answers of its collaborators
    uriOut                  \* the result of uri, or URINotCalled

uriVars == <<uriIn, uriOut>>

vars == <<envVars, tplVars, linkVars, uriVars>>

\* The deployer as the methods see it.
Deployer == [app |-> app, env |-> env, appRegionalResources |-> appRegionalResources]

NoInput ==
    [RootUserARN |-> "", CustomResourcesURLs |-> NilMap,
     Manifest |-> NilMft, RawManifest |-> ""]

LookupCalls(cs) == CallsTo(cs, "GetAppResourcesByRegion")

\* No template is being executed.
NoTemplate ==
    /\ tplData = [VPCConfig |-> [Imported |-> NilImported, Managed |-> NoManaged],
                  CustomInternalALBSubnets |-> <<>>,
                  PublicImportedCertARNs |-> <<>>,
                  PrivateImportedCertARNs |-> <<>>]
    /\ tplOut = NotRendered

\* findLinkedServices has not been called.
NotCalled == [called |-> FALSE, linked |-> NilMap, err |-> NoErr]

Called(r) == [called |-> TRUE, linked |-> r.linked, err |-> r.err]

\* serviceLinkageAddon has not run.
NoAddon == [done |-> FALSE, text |-> <<>>, err |-> NoErr]

NoLinks ==
    /\ linkIn = [service |-> ServiceConfig("svc", <<"">>, <<>>, {}), otherSvcs |-> <<>>]
    /\ linkOut = NotCalled
    /\ linkOutNetworkGo = NotCalled
    /\ addon = NoAddon
    /\ addonTmpl = AddonTemplateOK

\* albDescriber.uri has not been called.
URINotCalled == [called |-> FALSE, uri |-> ZeroALBURI, err |-> NoErr, calls |-> <<>>]

NoURI ==
    /\ uriIn = [d |-> [svc |-> "jobs", env |-> "test",
                       envDNSNameKey |-> envOutputPublicLoadBalancerDNSName],
                params |-> Fails({}), resources |-> Fails(<<>>),
                lb |-> Fails("lbDescriber"), headers |-> Fails(<<>>),
                outputs |-> Fails({})]
    /\ uriOut = URINotCalled

\* The envDeployer literal (env.go:73-85): the cache starts empty.
NewEnvDeployer(a, e) ==
    /\ app = a
    /\ env = e
    /\ appRegionalResources = NilRes
    /\ op = "NewEnvDeployer"
    /\ opIn = NoInput
    /\ calls = <<>>
    /\ res = NilRes
    /\ urls = NilMap
    /\ out = NilOutput
    /\ err = NoErr
    /\ resolved = NilRes
    /\ lookupCount = 0

Init ==
    /\ \E a \in Apps, e \in Envs : NewEnvDeployer(a, e)
    /\ NoTemplate
    /\ NoLinks
    /\ NoURI

\* What every operation leaves behind: r is the result of the operation.
Finish(name, in, r) ==
    /\ op' = name
    /\ opIn' = in
    /\ calls' = r.calls
    /\ res' = r.res
    /\ err' = r.err
    /\ appRegionalResources' = r.cache
    /\ resolved' = IF resolved.nil THEN r.res ELSE resolved
    /\ lookupCount' = lookupCount + Len(LookupCalls(r.calls))
    /\ UNCHANGED <<app, env, tplVars, linkVars, uriVars>>

UploadArtifacts ==
    /\ lookupCount < MaxLookups
    /\ \E lookupAns \in LookupAnswers, fsAns \in FSAnswers,
          order \in UploadOrders, upAns \in UploadAnswers :
          LET r == UploadArtifactsOp(Deployer, lookupAns, fsAns, order, upAns)
          IN /\ Finish("UploadArtifacts", NoInput, r)
             /\ urls' = r.urls
             /\ out' = NilOutput

GenerateCloudFormationTemplate ==
    /\ lookupCount < MaxLookups
    /\ \E in \in DeployInputs, lookupAns \in LookupAnswers, paramAns \in ParamAnswers,
          tplAns \in TemplateAnswers, parAns \in SerializedParametersAnswers :
          LET r == GenerateCloudFormationTemplateOp(Deployer, in, lookupAns, paramAns,
                                                    tplAns, parAns)
          IN /\ Finish("GenerateCloudFormationTemplate", in, r)
             /\ urls' = NilMap
             /\ out' = r.out

DeployEnvironment ==
    /\ lookupCount < MaxLookups
    /\ \E in \in DeployInputs, lookupAns \in LookupAnswers, deployAns \in DeployAnswers :
          LET r == DeployEnvironmentOp(Deployer, in, lookupAns, deployAns)
          IN /\ Finish("DeployEnvironment", in, r)
             /\ urls' = NilMap
             /\ out' = NilOutput

Next ==
    \/ UploadArtifacts
    \/ GenerateCloudFormationTemplate
    \/ DeployEnvironment

Spec == Init /\ [][Next]_vars

(***************************************************************************)
(* Executions of the environment template: the data is drawn at the start  *)
(* and the template is executed on it once.                                *)
(***************************************************************************)
MockApp == [Name |-> "mockApp", Domain |-> "", Tags |-> {}]

MockEnv ==
    [Name |-> "mockEnv", Region |-> "us-west-2",
     ManagerRoleARN |-> "mockManagerRoleARN",
     ExecutionRoleARN |-> "mockExecutionRoleARN"]

InitTemplate ==
    /\ NewEnvDeployer(MockApp, MockEnv)
    /\ tplData \in TemplateData
    /\ tplOut = NotRendered
    /\ NoLinks
    /\ NoURI

ExecuteTemplate ==
    /\ ~tplOut.rendered
    /\ tplOut' = Render(tplData)
    /\ UNCHANGED <<tplData, envVars, linkVars, uriVars>>

NextTemplate == ExecuteTemplate

SpecTemplate == InitTemplate /\ [][NextTemplate]_vars

(***************************************************************************)
(* Calls of findLinkedServices: the project is drawn at the start and the  *)
(* function is applied to it once.                                         *)
(***************************************************************************)
InitLinks ==
    /\ NewEnvDeployer(MockApp, MockEnv)
    /\ NoTemplate
    /\ linkIn \in [service : Services, otherSvcs : OtherServices]
    /\ linkOut = NotCalled
    /\ linkOutNetworkGo = NotCalled
    /\ addon = NoAddon
    /\ addonTmpl = AddonTemplateOK
    /\ NoURI

FindLinkedServices ==
    /\ ~linkOut.called
    /\ linkOut' = Called(findLinkedServices(linkIn.service, linkIn.otherSvcs))
    /\ linkOutNetworkGo' =
          Called(networkGo_findLinkedServices(linkIn.service, linkIn.otherSvcs))
    /\ UNCHANGED <<linkIn, addon, addonTmpl, envVars, tplVars, uriVars>>

NextLinks == FindLinkedServices

SpecLinks == InitLinks /\ [][NextLinks]_vars

(***************************************************************************)
(* Runs of serviceLinkageAddon: the project is drawn at the start and the  *)
(* addon is produced for it again and again.                               *)
(***************************************************************************)
InitAddon ==
    /\ NewEnvDeployer(MockApp, MockEnv)
    /\ NoTemplate
    /\ linkIn \in [service : Services, otherSvcs : OtherServices]
    /\ linkOut = NotCalled
    /\ linkOutNetworkGo = NotCalled
    /\ addon = NoAddon
    /\ addonTmpl \in AddonTemplateAnswers
    /\ NoURI

ServiceLinkageAddon ==
    /\ \E order \in Orders(findLinkedServices(linkIn.service, linkIn.otherSvcs).linked.m) :
          LET r == serviceLinkageAddon(linkIn.service, linkIn.otherSvcs, order, addonTmpl)
          IN  addon' = [done |-> TRUE, text |-> r.text, err |-> r.err]
    /\ UNCHANGED <<linkIn, linkOut, linkOutNetworkGo, addonTmpl, envVars, tplVars, uriVars>>

NextAddon == ServiceLinkageAddon

SpecAddon == InitAddon /\ [][NextAddon]_vars

(***************************************************************************)
(* Calls of albDescriber.uri: the describer and the answers are drawn at   *)
(* the start and uri is called once.                                       *)
(***************************************************************************)
InitURI ==
    /\ NewEnvDeployer(MockApp, MockEnv)
    /\ NoTemplate
    /\ NoLinks
    /\ uriIn \in URIInputs
    /\ uriOut = URINotCalled

CallURI ==
    /\ ~uriOut.called
    /\ LET r == uri(uriIn.d, uriIn.params, uriIn.resources, uriIn.lb, uriIn.headers,
                    uriIn.outputs)
       IN  uriOut' = [called |-> TRUE, uri |-> r.uri, err |-> r.err, calls |-> r.calls]
    /\ UNCHANGED <<uriIn, envVars, tplVars, linkVars>>

NextURI == CallURI

SpecURI == InitURI /\ [][NextURI]_vars

(***************************************************************************)
(* Properties                                                              *)
(***************************************************************************)
IsUpload == op = "UploadArtifacts"
IsGenerate == op = "GenerateCloudFormationTemplate"
IsDeploy == op = "DeployEnvironment"

UploadCalls == CallsTo(calls, "s3.Upload")
DescribeCalls == CallsTo(calls, "EnvironmentParameters")
SerializerCalls == CallsTo(calls, "newStackSerializer")
UpdateCalls == CallsTo(calls, "UpdateAndRenderEnvironment")

\* The lookup was called and answered with the error or the resources given.
LookupFailed == \E i \in 1..Len(LookupCalls(calls)) : ~LookupCalls(calls)[i].ret.err.nil
LookupEmptyBucket ==
    \E i \in 1..Len(LookupCalls(calls)) :
        /\ LookupCalls(calls)[i].ret.err.nil
        /\ LookupCalls(calls)[i].ret.res.S3Bucket = ""

\* The operation returned no result value.
NoResult == urls.nil /\ out.nil

MissingBucketError == Errorf(<<"cannot find the S3 artifact bucket in region ", env.Region>>)

\* C1: once an operation on the instance has resolved the regional resources,
\* no later operation calls GetAppResourcesByRegion again, and every later
\* resolve yields the resources resolved first.
C1_ResolvedOnce ==
    [][~resolved.nil => (LookupCalls(calls') = <<>> /\ res' = resolved)]_vars

\* C2: a lookup that succeeds with an empty bucket name makes the operation
\* fail with the missing-bucket error and without a result; nothing is called
\* after the lookup, and no upload or deployment ever carries an empty bucket.
C2_EmptyBucketFails ==
    /\ LookupEmptyBucket =>
          /\ err = MissingBucketError
          /\ NoResult
          /\ res.nil
          /\ Len(calls) = Len(LookupCalls(calls))
    /\ \A i \in 1..Len(UploadCalls) : UploadCalls[i].args[1] # ""
    /\ \A i \in 1..Len(UpdateCalls) : UpdateCalls[i].args[2].ArtifactBucketARN[4] # ""

C2_Witness ==
    /\ IsUpload
    /\ LookupEmptyBucket
    /\ err = MissingBucketError

\* C3: when GetAppResourcesByRegion fails with cause e, the operation fails
\* with 'get app resources in region <env region>: <e>', an error that wraps
\* e, and returns no result value.
C3_LookupErrorWrapped ==
    \A i \in 1..Len(LookupCalls(calls)) :
        LET e == LookupCalls(calls)[i].ret.err
        IN ~e.nil =>
              /\ op \in {"UploadArtifacts", "GenerateCloudFormationTemplate", "DeployEnvironment"}
              /\ err.msg = <<"get app resources in region ", env.Region, ": ">> \o e.msg
              /\ Wraps(err, e)
              /\ NoResult

C3_Witness ==
    /\ IsDeploy
    /\ LookupFailed
    /\ LookupCalls(calls)[1].ret.err = ErrorsNew("boom")
    /\ err.msg = <<"get app resources in region ", env.Region, ": ", "boom">>

\* Every upload that was made succeeded.
AllUploadsSucceeded ==
    /\ \A i \in 1..Len(UploadCalls) : UploadCalls[i].ret.err.nil

\* C4 (as stated): when the resolution and every upload succeed,
\* UploadArtifacts returns
\* a map whose keys are exactly the function names of the catalog, whatever
\* the order of the uploads, and each bundle of the catalog was uploaded
\* exactly once, to the resolved bucket.
C4_UploadKeysAreCatalog ==
    (IsUpload /\ ~res.nil /\ AllUploadsSucceeded) =>
        /\ err.nil
        /\ ~urls.nil
        /\ Keys(urls) = CatalogNames
        /\ Cardinality(urls.m) = Cardinality(CatalogNames)
        /\ \A name \in CatalogNames :
              Cardinality({i \in 1..Len(UploadCalls) :
                              UploadCalls[i].args[2] = ArtifactKey(name)}) = 1
        /\ \A i \in 1..Len(UploadCalls) :
              /\ UploadCalls[i].args[1] = res.S3Bucket
              /\ UploadCalls[i].args[1] = LookupCalls(calls)[1].ret.res.S3Bucket

\* customresource.Env was called and read the catalog.
CatalogRead ==
    /\ Len(CallsTo(calls, "customresource.Env")) = 1
    /\ CallsTo(calls, "customresource.Env")[1].ret.nil

\* C4 (amended): when the resolution succeeds, the catalog is read and every
\* upload succeeds, UploadArtifacts returns a map whose keys are exactly the
\* function names of the catalog, whatever the order of the uploads, and each
\* bundle of the catalog was uploaded exactly once, to the resolved bucket.
C4_UploadKeysAreCatalogWhenRead ==
    (IsUpload /\ ~res.nil /\ CatalogRead /\ AllUploadsSucceeded) =>
        /\ err.nil
        /\ ~urls.nil
        /\ Keys(urls) = CatalogNames
        /\ Cardinality(urls.m) = Cardinality(CatalogNames)
        /\ \A name \in CatalogNames :
              Cardinality({i \in 1..Len(UploadCalls) :
                              UploadCalls[i].args[2] = ArtifactKey(name)}) = 1
        /\ \A i \in 1..Len(UploadCalls) :
              /\ UploadCalls[i].args[1] = res.S3Bucket
              /\ UploadCalls[i].args[1] = LookupCalls(calls)[1].ret.res.S3Bucket

\* The uploads were made in an order other than the order of the catalog.
C4_Witness ==
    /\ IsUpload
    /\ CatalogRead
    /\ AllUploadsSucceeded
    /\ Len(UploadCalls) = Len(EnvCatalog)
    /\ UploadCalls[1].args[2] = ArtifactKey("DNSDelegationFunction")
    /\ UploadCalls[2].args[2] = ArtifactKey("CertificateValidationFunction")
    /\ Keys(urls) = CatalogNames

\* C5: if an upload fails, UploadArtifacts returns a nil map and an error
\* that starts with 'upload custom resources to bucket <bucket>: ' and wraps
\* the cause; the uploads that succeeded are not returned.
C5_UploadFailureFailsAll ==
    \A i \in 1..Len(UploadCalls) :
        ~UploadCalls[i].ret.err.nil =>
            /\ IsUpload
            /\ urls.nil
            /\ urls.m = {}
            /\ IsPrefixOf(<<"upload custom resources to bucket ", res.S3Bucket, ": ">>, err.msg)
            /\ Wraps(err, UploadCalls[i].ret.err)

\* Two uploads succeeded before the third failed.
C5_Witness ==
    /\ IsUpload
    /\ Len(UploadCalls) = 3
    /\ UploadCalls[1].ret.err.nil
    /\ UploadCalls[2].ret.err.nil
    /\ ~UploadCalls[3].ret.err.nil
    /\ urls.nil

\* C6: GenerateCloudFormationTemplate never calls UpdateAndRenderEnvironment
\* and never uploads, whether it succeeds or fails; of the control plane it
\* calls only the resource lookup and the read of the stack parameters.
C6_GenerateIsPreviewOnly ==
    IsGenerate =>
        /\ UpdateCalls = <<>>
        /\ UploadCalls = <<>>
        /\ \A i \in 1..Len(calls) :
              calls[i].fn \in {"GetAppResourcesByRegion", "EnvironmentParameters",
                               "newStackSerializer", "Template", "SerializedParameters"}

C6_Witness ==
    /\ IsGenerate
    /\ err.nil
    /\ ~out.nil
    /\ Len(calls) = 5

\* C9: when UpdateAndRenderEnvironment fails with e, DeployEnvironment
\* returns e itself, with the same message and without wrapping it; when it
\* succeeds, DeployEnvironment returns nil.
C9_DeployErrorVerbatim ==
    \A i \in 1..Len(UpdateCalls) :
        /\ IsDeploy
        /\ err = UpdateCalls[i].ret
        /\ (UpdateCalls[i].ret.nil => err = NoErr)

C9_Witness ==
    /\ IsDeploy
    /\ Len(UpdateCalls) = 1
    /\ UpdateCalls[1].ret = ErrorsNew("boom")
    /\ err = ErrorsNew("boom")

\* The stack input carries the inputs of the call.
Faithful(input) ==
    /\ ~input.nil
    /\ input.Name = env.Name
    /\ input.App.Name = app.Name
    /\ input.CustomResourcesURLs = opIn.CustomResourcesURLs
    /\ input.Mft = opIn.Manifest
    /\ input.RawMft = opIn.RawManifest
    /\ input.ArtifactBucketKeyARN = LookupCalls(calls)[1].ret.res.KMSKeyARN
    /\ input.Version = LatestEnvTemplateVersion

\* C10: the input that DeployEnvironment submits has the name of the
\* environment, the name of the application, the custom-resource URLs, the
\* typed and the raw manifest of the call, the resolved KMS key and the latest
\* template version; GenerateCloudFormationTemplate hands the same input to
\* the serializer.
C10_StackInputFaithful ==
    /\ \A i \in 1..Len(UpdateCalls) : Faithful(UpdateCalls[i].args[2])
    /\ \A i \in 1..Len(SerializerCalls) : Faithful(SerializerCalls[i].args[1])

C10_Witness ==
    /\ IsDeploy
    /\ Len(UpdateCalls) = 1
    /\ err.nil
    /\ UpdateCalls[1].args[2].CustomResourcesURLs = MakeMap({<<"mockResource", "mockURL">>})
    /\ UpdateCalls[1].args[2].Name = "mockEnv"
    /\ UpdateCalls[1].args[2].App.Name = "mockApp"
    /\ UpdateCalls[1].args[2].ArtifactBucketKeyARN = "mockKMSKey"
    /\ UpdateCalls[1].args[2].Mft = MockMft
    /\ UpdateCalls[1].args[2].RawMft = "name: mockEnv"

\* C11: UpdateAndRenderEnvironment is always called with exactly one option,
\* the role option set to the execution role of the environment, and never
\* with the manager role.
C11_DeployUsesExecutionRole ==
    \A i \in 1..Len(UpdateCalls) :
        /\ UpdateCalls[i].args[3] = <<WithRoleARN(env.ExecutionRoleARN)>>
        /\ UpdateCalls[i].args[3] # <<WithRoleARN(env.ManagerRoleARN)>>
        /\ UpdateCalls[i].args[3] # <<>>

C11_Witness ==
    /\ IsDeploy
    /\ Len(UpdateCalls) = 1
    /\ app.Name = "shop"
    /\ UpdateCalls[1].args[3] = << <<"WithRoleARN", "mockExecutionRoleARN">> >>

TemplateCalls == CallsTo(calls, "Template")
ParametersCalls == CallsTo(calls, "SerializedParameters")

\* C12: when EnvironmentParameters fails with e, the operation fails with
\* 'describe environment stack parameters: <e>', returns no output, and the
\* serializer is neither constructed nor asked for the template or the
\* parameters.
C12_DescribeErrorStops ==
    \A i \in 1..Len(DescribeCalls) :
        LET e == DescribeCalls[i].ret.err
        IN ~e.nil =>
              /\ IsGenerate
              /\ err.msg = <<"describe environment stack parameters: ">> \o e.msg
              /\ Wraps(err, e)
              /\ out.nil
              /\ SerializerCalls = <<>>
              /\ TemplateCalls = <<>>
              /\ ParametersCalls = <<>>

C12_Witness ==
    /\ IsGenerate
    /\ Len(DescribeCalls) = 1
    /\ ~DescribeCalls[1].ret.err.nil
    /\ err.msg = <<"describe environment stack parameters: ", "some error">>

\* The position of the first call to fn in cs; 0 when there is none.
IndexOf(cs, fn) ==
    IF \E i \in 1..Len(cs) : cs[i].fn = fn
    THEN CHOOSE i \in 1..Len(cs) : cs[i].fn = fn /\ \A j \in 1..(i - 1) : cs[j].fn # fn
    ELSE 0

\* C13: the template is rendered before the parameters.  If Template fails
\* with e the error is 'generate stack template: <e>' and SerializedParameters
\* is not called; if SerializedParameters fails with e after Template
\* succeeded the error is 'generate stack template parameters: <e>'; no
\* output is returned in either case.
C13_TemplateBeforeParameters ==
    /\ ParametersCalls # <<>> =>
          /\ TemplateCalls # <<>>
          /\ IndexOf(calls, "Template") < IndexOf(calls, "SerializedParameters")
          /\ TemplateCalls[1].ret.err.nil
    /\ \A i \in 1..Len(TemplateCalls) :
          LET e == TemplateCalls[i].ret.err
          IN ~e.nil =>
                /\ err.msg = <<"generate stack template: ">> \o e.msg
                /\ Wraps(err, e)
                /\ ParametersCalls = <<>>
                /\ out.nil
    /\ \A i \in 1..Len(ParametersCalls) :
          LET e == ParametersCalls[i].ret.err
          IN ~e.nil =>
                /\ err.msg = <<"generate stack template parameters: ">> \o e.msg
                /\ Wraps(err, e)
                /\ out.nil

C13_Witness ==
    /\ IsGenerate
    /\ Len(TemplateCalls) = 1
    /\ TemplateCalls[1].ret.err.nil
    /\ Len(ParametersCalls) = 1
    /\ ~ParametersCalls[1].ret.err.nil
    /\ err.msg = <<"generate stack template parameters: ", "some error">>
    /\ out.nil

\* C14: when the resolution, the read of the parameters, Template and
\* SerializedParameters all succeed, the operation returns no error and an
\* output whose Template and Parameters are the values the serializer
\* returned.
C14_OutputIsSerializerOutput ==
    (/\ IsGenerate
     /\ ~res.nil
     /\ \E i \in 1..Len(DescribeCalls) : DescribeCalls[i].ret.err.nil
     /\ \E i \in 1..Len(TemplateCalls) : TemplateCalls[i].ret.err.nil
     /\ \E i \in 1..Len(ParametersCalls) : ParametersCalls[i].ret.err.nil)
    => /\ err.nil
       /\ ~out.nil
       /\ out.Template = TemplateCalls[1].ret.tpl
       /\ out.Parameters = ParametersCalls[1].ret.params

C14_Witness ==
    /\ IsGenerate
    /\ err.nil
    /\ Len(TemplateCalls) = 1
    /\ Len(ParametersCalls) = 1
    /\ out.Template = "aloo"
    /\ out.Parameters = "gobi"

\* C15: within one operation GetAppResourcesByRegion, EnvironmentParameters
\* and UpdateAndRenderEnvironment are each called at most once, whether they
\* succeed or fail, and a failed deployment is the error of the operation.
C15_NoRetry ==
    /\ Len(LookupCalls(calls)) <= 1
    /\ Len(DescribeCalls) <= 1
    /\ Len(UpdateCalls) <= 1
    /\ \A i \in 1..Len(UpdateCalls) :
          ~UpdateCalls[i].ret.nil =>
              /\ err = UpdateCalls[i].ret
              /\ calls[Len(calls)].fn = "UpdateAndRenderEnvironment"

C15_Witness ==
    /\ IsDeploy
    /\ Len(LookupCalls(calls)) = 1
    /\ Len(UpdateCalls) = 1
    /\ UpdateCalls[1].ret = ErrorsNew("some error")
    /\ ~err.nil


(***************************************************************************)
(* Claims about the environment template                                   *)
(***************************************************************************)
\* The entries of a section whose logical ID has the given name.
EntriesNamed(section, name) == SelectSeq(section, LAMBDA e : e.id[1] = name)

\* The logical IDs that a section declares.
Declared(section) == {section[i].id : i \in 1..Len(section)}

\* C16: the public HTTPS listener of every rendered template carries exactly
\* one primary certificate: the first imported certificate ARN when at least
\* one public certificate is imported, and the managed !Ref HTTPSCert
\* otherwise; never both and never neither.
C16_OnePrimaryCertificate ==
    tplOut.rendered =>
        LET listeners == EntriesNamed(tplOut.Resources, "HTTPSListener")
        IN  /\ Len(listeners) = 1
            /\ Len(listeners[1].certs) = 1
            /\ listeners[1].certs[1] =
                  IF Len(tplData.PublicImportedCertARNs) >= 1
                  THEN ImportedCert(tplData.PublicImportedCertARNs[1])
                  ELSE ManagedCert("HTTPSCert")

\* A template rendered with several imported public certificates.
C16_Witness ==
    /\ tplOut.rendered
    /\ Len(tplData.PublicImportedCertARNs) >= 2
    /\ EntriesNamed(tplOut.Resources, "HTTPSListener")[1].certs
          = <<ImportedCert(tplData.PublicImportedCertARNs[1])>>

\* The certificates that the listener and the ListenerCertificate blocks of
\* one kind carry, in the order of the document.
RECURSIVE CertsOf(_)
CertsOf(entries) ==
    IF entries = <<>> THEN <<>> ELSE Head(entries).certs \o CertsOf(Tail(entries))

\* One list of imported certificates is rendered as the claim says: the first
\* is the certificate of the listener, certificate k > 1 is the only
\* certificate of the block numbered k, and there is no other block.
CertificatesAttached(listener, block, arns) ==
    LET listeners == EntriesNamed(tplOut.Resources, listener)
        blocks == EntriesNamed(tplOut.Resources, block)
    IN  /\ Len(listeners) = 1
        /\ listeners[1].certs = <<ImportedCert(arns[1])>>
        /\ Len(blocks) = Len(arns) - 1
        /\ \A k \in 1..Len(blocks) :
              /\ blocks[k].id = LogicalID(block, k + 1)
              /\ blocks[k].certs = <<ImportedCert(arns[k + 1])>>
              /\ blocks[k].refs = {LogicalID(listener, 0)}
        /\ \A j, k \in 1..Len(blocks) : blocks[j].id = blocks[k].id => j = k
        /\ CertsOf(listeners \o blocks) = [i \in 1..Len(arns) |-> ImportedCert(arns[i])]

\* C17: of n >= 1 imported certificates, public or internal, the first is the
\* primary certificate of the listener and each of the other n - 1 has its
\* own ListenerCertificate block, numbered 2..n: every certificate appears
\* once, the logical IDs are distinct and the first has no block.
C17_RemainingCertificatesAttached ==
    tplOut.rendered =>
        /\ Len(tplData.PublicImportedCertARNs) >= 1 =>
              CertificatesAttached("HTTPSListener", "HTTPSImportCertificate",
                                   tplData.PublicImportedCertARNs)
        /\ Len(tplData.PrivateImportedCertARNs) >= 1 =>
              CertificatesAttached("InternalHTTPSListener", "InternalHTTPSImportCertificate",
                                   tplData.PrivateImportedCertARNs)

\* A template rendered with three public and two internal certificates.
C17_Witness ==
    /\ tplOut.rendered
    /\ Len(tplData.PublicImportedCertARNs) = 3
    /\ Len(tplData.PrivateImportedCertARNs) = 2
    /\ LogicalID("HTTPSImportCertificate", 3) \in Declared(tplOut.Resources)
    /\ LogicalID("InternalHTTPSImportCertificate", 2) \in Declared(tplOut.Resources)

\* The resources of a managed VPC.
VPCResourceNames ==
    {"VPC", "PublicSubnet", "PrivateSubnet", "InternetGateway",
     "PublicRouteTable", "PrivateRouteTable"}

LocalVPCRefs(e) == {r \in e.refs : r[1] \in VPCResourceNames}

\* C18: a template rendered for an imported VPC declares no VPC resource and
\* refers to none; a template rendered for a managed VPC declares the
\* resources of the vpc-resources and nat-gateways blocks and uses no
\* imported identifier; no template refers to a VPC resource that it does
\* not declare.
C18_VPCConsistent ==
    tplOut.rendered =>
        LET all == tplOut.Resources \o tplOut.Outputs
            declared == Declared(tplOut.Resources)
            managed == tplData.VPCConfig.Managed
        IN  /\ ~tplData.VPCConfig.Imported.nil =>
                  /\ \A i \in 1..Len(all) : LocalVPCRefs(all[i]) = {}
                  /\ \A id \in declared : id[1] \notin VPCResourceNames
            /\ tplData.VPCConfig.Imported.nil =>
                  /\ Declared(VPCResources(managed) \o NATGateways(managed)) \subseteq declared
                  /\ \A i \in 1..Len(all) : all[i].ext = {}
            /\ \A i \in 1..Len(all) : LocalVPCRefs(all[i]) \subseteq declared

\* C19: the resource InternalWorkloadsHostedZone and the outputs
\* InternalWorkloadsHostedZone and InternalWorkloadsHostedZoneName are all
\* rendered when no internal certificate is imported and none of them is
\* rendered otherwise, so no output refers to a hosted zone that the template
\* does not declare.
C19_PrivateHostedZoneSuppressed ==
    tplOut.rendered =>
        LET zone == LogicalID("InternalWorkloadsHostedZone", 0)
            name == LogicalID("InternalWorkloadsHostedZoneName", 0)
            kept == Len(tplData.PrivateImportedCertARNs) = 0
        IN  /\ zone \in Declared(tplOut.Resources) <=> kept
            /\ zone \in Declared(tplOut.Outputs) <=> kept
            /\ name \in Declared(tplOut.Outputs) <=> kept
            /\ \A i \in 1..Len(tplOut.Outputs) :
                  zone \in tplOut.Outputs[i].refs => zone \in Declared(tplOut.Resources)

\* A template rendered with an imported internal certificate: the hosted
\* zone and its outputs are gone.
C19_Witness ==
    /\ tplOut.rendered
    /\ Len(tplData.PrivateImportedCertARNs) >= 1
    /\ LogicalID("InternalWorkloadsHostedZone", 0) \notin
          Declared(tplOut.Resources) \cup Declared(tplOut.Outputs)
    /\ LogicalID("InternalHTTPSListenerArn", 0) \in Declared(tplOut.Outputs)

(***************************************************************************)
(* Claims about findLinkedServices                                         *)
(***************************************************************************)
\* C20: for a service with network mode "none", findLinkedServices returns a
\* nil map and no error, whatever the other services are and whatever
\* networks and links are declared.
C20_NoneLinksNothing ==
    (linkOut.called /\ linkIn.service.NetworkMode = <<"none">>) =>
        /\ linkOut.linked = NilMap
        /\ linkOut.err = NoErr
        /\ linkOutNetworkGo.linked = NilMap
        /\ linkOutNetworkGo.err = NoErr

\* A call for a service with network mode "none" that declares links and
\* shares a network with one of two other services.
C20_Witness ==
    /\ linkOut.called
    /\ linkIn.service.NetworkMode = <<"none">>
    /\ linkIn.service.Links # <<>>
    /\ Len(linkIn.otherSvcs) = 2
    /\ \E i \in 1..2 : linkIn.otherSvcs[i].Networks \cap linkIn.service.Networks # {}
    /\ linkOut.linked.nil
    /\ linkOutNetworkGo.linked.nil

\* C21: for a service with network mode "host", findLinkedServices fails
\* with the error 'network mode "host" is not supported' and returns no map,
\* whatever the other services are.
C21_HostNotSupported ==
    (linkOut.called /\ linkIn.service.NetworkMode = <<"host">>) =>
        LET unsupported == Errorf(<<"network mode \"", "host", "\" is not supported">>)
        IN  /\ linkOut.linked = NilMap
            /\ linkOut.err = unsupported
            /\ linkOutNetworkGo.linked = NilMap
            /\ linkOutNetworkGo.err = unsupported

\* A call for a service with network mode "host" in a project of two other
\* services on its network.
C21_Witness ==
    /\ linkOut.called
    /\ linkIn.service.NetworkMode = <<"host">>
    /\ Len(linkIn.otherSvcs) = 2
    /\ \A i \in 1..2 : linkIn.otherSvcs[i].Networks = {}
    /\ linkIn.service.Networks = {}
    /\ ~linkOut.err.nil
    /\ ~linkOutNetworkGo.err.nil

\* The services findLinkedServices was given: the service itself, then the
\* other services.
AllSvcs == <<linkIn.service>> \o linkIn.otherSvcs

\* The services that a returned map holds.
Values(map) == {p[2] : p \in map.m}

\* The claim C22 of one copy of the function, o being its result.
ServiceModeRestricts(o) ==
    LET mode == linkIn.service.NetworkMode
        named == SelectSeq(AllSvcs, LAMBDA svc : <<svc.Name>> = Tail(mode))
    IN  (o.called /\ HasPrefixService(mode)) =>
            IF named = <<>>
            THEN /\ o.linked = NilMap
                 /\ o.err = Errorf(<<"no service with the name \"">> \o Text(Tail(mode))
                                   \o <<"\" found for network mode \"">>
                                   \o Text(mode) \o <<"\"">>)
            ELSE /\ o.err = NoErr
                 /\ ~o.linked.nil
                 /\ Values(o.linked) \subseteq {named[1]}
                 /\ Tail(mode) = <<linkIn.service.Name>> =>
                       Values(o.linked) = {linkIn.service}

\* C22: with network mode "service:X", findLinkedServices links the service
\* to nothing but the service named X, looked for among the service itself
\* and the other services, so that "service:<own name>" links the service to
\* itself only; when no service is named X it fails with 'no service with the
\* name "X" found for network mode "service:X"' and returns no map.
C22_ServiceModeRestricts ==
    /\ ServiceModeRestricts(linkOut)
    /\ ServiceModeRestricts(linkOutNetworkGo)

\* The network mode is none of "none", "host" and "service:<name>".
DefaultMode ==
    /\ linkIn.service.NetworkMode # <<"none">>
    /\ linkIn.service.NetworkMode # <<"host">>
    /\ ~HasPrefixService(linkIn.service.NetworkMode)

\* A service is on the network default: it declares it or declares none.
OnDefault(svc) == svc.Networks = {} \/ "default" \in svc.Networks

\* The names of the services that a returned map holds.
LinkedNames(map) == {p[2].Name : p \in map.m}

\* The claim C23 of one copy of the function, o being its result and f the
\* copy.
DefaultNetworkRule(o, f(_, _)) ==
    (o.called /\ DefaultMode /\ linkIn.service.Networks = {}) =>
        LET explicit == [linkIn.service EXCEPT !.Networks = {"default"}]
        IN  /\ o.err = NoErr
            /\ linkIn.service \in Values(o.linked)
            /\ \A i \in 1..Len(linkIn.otherSvcs) :
                  OnDefault(linkIn.otherSvcs[i]) => linkIn.otherSvcs[i] \in Values(o.linked)
            /\ LinkedNames(f(explicit, linkIn.otherSvcs).linked) = LinkedNames(o.linked)

\* C23: a service that declares no networks is on the network default: the
\* result holds the service itself and every other service that declares no
\* networks or declares default, and the same services are linked when the
\* service declares default itself.
C23_DefaultNetworkRule ==
    /\ DefaultNetworkRule(linkOut, findLinkedServices)
    /\ DefaultNetworkRule(linkOutNetworkGo, networkGo_findLinkedServices)

\* The networks a service is on: those it declares, or default.
NetworksOf(svc) == IF svc.Networks = {} THEN {"default"} ELSE svc.Networks

\* The claim C24 of one copy of the function, o being its result.
NetworkOverlapRule(o) ==
    (o.called /\ DefaultMode) =>
        /\ o.err = NoErr
        /\ \A i \in 1..Len(AllSvcs) :
              AllSvcs[i] \in Values(o.linked)
                  <=> NetworksOf(AllSvcs[i]) \cap NetworksOf(linkIn.service) # {}
        /\ \A svc \in Values(o.linked) : Cardinality({p \in o.linked.m : p[2] = svc}) = 1

\* C24: in the default network mode a service, the service itself included,
\* is in the result exactly when it shares a network with the service, a
\* service that declares no networks being on default; a service on disjoint
\* networks is not linked and a service that shares several networks is
\* linked once.
C24_NetworkOverlapRule ==
    /\ NetworkOverlapRule(linkOut)
    /\ NetworkOverlapRule(linkOutNetworkGo)

\* The services that pass the network mode and the network overlap: with
\* "service:<name>" the first service of that name, otherwise all of them,
\* as far as they share a network with the service.
Reachable ==
    LET named == SelectSeq(AllSvcs,
                     LAMBDA svc : <<svc.Name>> = Tail(linkIn.service.NetworkMode))
        candidates ==
            IF HasPrefixService(linkIn.service.NetworkMode)
            THEN (IF named = <<>> THEN <<>> ELSE <<named[1]>>)
            ELSE AllSvcs
    IN  SelectSeq(candidates, LAMBDA svc :
            NetworksOf(svc) \cap NetworksOf(linkIn.service) # {})

\* The links of the service that name an alias for a reachable service.
AliasLinks ==
    SelectSeq(linkIn.service.Links, LAMBDA link :
        /\ Len(link) = 2
        /\ link[2] # ""
        /\ \E i \in 1..Len(Reachable) : Reachable[i].Name = link[1])

\* The other services without their links.
RECURSIVE WithoutLinks(_)
WithoutLinks(svcs) ==
    IF svcs = <<>> THEN <<>>
    ELSE <<[Head(svcs) EXCEPT !.Links = <<>>]>> \o WithoutLinks(Tail(svcs))

\* C25: links rename and do not connect: a link "target:alias" of the service
\* puts a reachable service named target under the key alias and not under
\* its own name; a link without an alias, a link to a service that shares no
\* network and the links of other services do not change which services the
\* result holds.
C25_LinksOnlyRename ==
    (linkOut.called /\ linkOut.err.nil /\ ~linkOut.linked.nil) =>
        /\ \A i \in 1..Len(AliasLinks) : \A k \in 1..Len(Reachable) :
              Reachable[k].Name = AliasLinks[i][1] =>
                  /\ <<AliasLinks[i][2], Reachable[k]>> \in linkOut.linked.m
                  /\ <<Reachable[k].Name, Reachable[k]>> \notin linkOut.linked.m
        /\ LinkedNames(linkOut.linked) =
              LinkedNames(findLinkedServices(
                              [linkIn.service EXCEPT !.Links = AliasLinks],
                              WithoutLinks(linkIn.otherSvcs)).linked)

(***************************************************************************)
(* Further claims about the envDeployer                                    *)
(***************************************************************************)
\* The calls that stage, preview or deploy: everything but the lookup.
StepNames ==
    {"customresource.Env", "s3.Upload", "EnvironmentParameters", "newStackSerializer",
     "Template", "SerializedParameters", "UpdateAndRenderEnvironment"}

\* Call i of the last operation is a lookup that answered with a bucket.
ResolvedAt(i) ==
    /\ calls[i].fn = "GetAppResourcesByRegion"
    /\ calls[i].ret.err.nil
    /\ calls[i].ret.res.S3Bucket # ""

\* C26: when resolving the regional resources fails, by a lookup error or by
\* an empty bucket, UploadArtifacts uploads nothing,
\* GenerateCloudFormationTemplate calls neither EnvironmentParameters nor the
\* serializer and DeployEnvironment does not call UpdateAndRenderEnvironment;
\* an upload, preview or deploy call is made only after a lookup of the same
\* operation that answered with a non-empty bucket.
C26_FailFastOnResolution ==
    /\ (LookupFailed \/ LookupEmptyBucket) =>
          /\ \A i \in 1..Len(calls) : calls[i].fn \notin StepNames
          /\ ~err.nil
          /\ NoResult
    /\ \A i \in 1..Len(calls) :
          calls[i].fn \in StepNames => \E j \in 1..(i - 1) : ResolvedAt(j)

\* An UploadArtifacts whose lookup answered with an empty bucket, and which
\* stopped there.
C26_Witness ==
    /\ IsUpload
    /\ LookupEmptyBucket
    /\ Len(calls) = 1
    /\ ~err.nil

\* C27: DeployEnvironment makes no EnvironmentParameters, Template or
\* SerializedParameters call and constructs no serializer: it calls the
\* lookup and then, when the stack input was built, only
\* UpdateAndRenderEnvironment, and it returns what that call returns.
C27_DeployReadsNoParameters ==
    IsDeploy =>
        /\ DescribeCalls = <<>>
        /\ SerializerCalls = <<>>
        /\ TemplateCalls = <<>>
        /\ ParametersCalls = <<>>
        /\ \A i \in 1..Len(calls) :
              calls[i].fn \in {"GetAppResourcesByRegion", "UpdateAndRenderEnvironment"}
        /\ (Len(UpdateCalls) = 1 /\ UpdateCalls[1].ret.nil) => err.nil

\* A DeployEnvironment that succeeded with two calls: the lookup and the
\* update.
C27_Witness ==
    /\ IsDeploy
    /\ err.nil
    /\ Len(calls) = 2
    /\ calls[2].fn = "UpdateAndRenderEnvironment"

(***************************************************************************)
(* Further claims about findLinkedServices                                 *)
(***************************************************************************)
\* C28: findLinkedServices loses no reachable service: every service that
\* passes the network mode and the network overlap is a value of the
\* returned map, and the map has as many entries as there are reachable
\* services, also when the alias of one service is the name or the alias of
\* another.
C28_NoReachableServiceLost ==
    (linkOut.called /\ linkOut.err.nil /\ ~linkOut.linked.nil) =>
        /\ \A k \in 1..Len(Reachable) : Reachable[k] \in Values(linkOut.linked)
        /\ Cardinality(linkOut.linked.m) = Len(Reachable)

\* The alias links of the addon are those of the map linked: one per entry,
\* with the key as AliasName and the name of the service as TargetSvc.
OnePerEntry(a) ==
    LET m == findLinkedServices(linkIn.service, linkIn.otherSvcs).linked.m
    IN  (a.done /\ a.err.nil) =>
            /\ Len(a.text) = Cardinality(m)
            /\ Range(a.text) = {[AliasName |-> p[1], TargetSvc |-> p[2].Name] : p \in m}

\* C29: serviceLinkageAddon is deterministic: the addon has one alias link
\* per entry of the map of linked services, and a second run on the same
\* services produces the alias links in the same order, so the same text.
C29_AddonDeterministic ==
    [][/\ OnePerEntry(addon')
       /\ addon.done => addon'.text = addon.text]_vars

\* C30: albDescriber.uri reports every collaborator failure: when a call it
\* made to read the service stack parameters, the service stack resources, the
\* load-balancer describer, the listener-rule host headers or the environment
\* outputs failed, the error it returns is not nil; and it returns a nil error
\* only together with a URI that has at least one DNS name.
FailedCalls(cs) == {i \in 1..Len(cs) : ~cs[i].ret.err.nil}

C30_ReportsEveryFailure ==
    uriOut.called =>
        /\ FailedCalls(uriOut.calls) # {} => ~uriOut.err.nil
        /\ uriOut.err.nil => Len(uriOut.uri.DNSNames) >= 1

=============================================================================
